---------------------------- MODULE Spec2Model ----------------------------
(***************************************************************************)
(* Swift Alliance message converter and validator.                         *)
(*                                                                         *)
(* Two presentation layers (the PyQt5 desktop GUI and the Streamlit app)   *)
(* drive a codec: a Payment Model builder, an MT103 generator, a pain.001  *)
(* generator, an MT103 validator and a pain.001 validator.                 *)
(*                                                                         *)
(* Text is a sequence of characters.  A character is a one-letter string;  *)
(* the line break is the token "NL".  XML markup (an element's start tag,  *)
(* its end tag, the declaration) is written as one token per tag, e.g.     *)
(* "<CtrlSum>", standing for that run of characters; a raw "<" or "&" in   *)
(* character data is the one-letter string.                                *)
(***************************************************************************)
EXTENDS Integers, Sequences, FiniteSets, TLC

(***************************************************************************)
(* Characters                                                              *)
(***************************************************************************)
NL == "NL"
SP == " "

UpperSeq ==
  << "A","B","C","D","E","F","G","H","I","J","K","L","M",
     "N","O","P","Q","R","S","T","U","V","W","X","Y","Z" >>

LowerSeq ==
  << "a","b","c","d","e","f","g","h","i","j","k","l","m",
     "n","o","p","q","r","s","t","u","v","w","x","y","z" >>

DigitSeq == << "0","1","2","3","4","5","6","7","8","9" >>

Range(s) == { s[i] : i \in DOMAIN s }

Upper == Range(UpperSeq)
Lower == Range(LowerSeq)
Digit == Range(DigitSeq)

IsWs(c) == c \in { SP, NL }

DigitVal(c) == (CHOOSE i \in 1..10 : DigitSeq[i] = c) - 1

ToUpperChar(c) ==
  IF c \in Lower THEN UpperSeq[CHOOSE i \in 1..26 : LowerSeq[i] = c] ELSE c

ToUpper(s) == [ i \in DOMAIN s |-> ToUpperChar(s[i]) ]

Rep(c, n) == [ i \in 1..n |-> c ]

\* a sequence given as a function on 1..n, and a set given by a condition, with
\* its members computed once
Tabulate(f) == f \o << >>

Enumerate(S) == { a : a \in S }

\* where each sequence of ss starts in the sequence they make together: the
\* number of places before it (and, last, the length of the whole)
Offsets(ss) ==
  Tabulate([ j \in 1..(Len(ss) + 1) |->
               Cardinality(UNION { { << i, t >> : t \in 1..Len(ss[i]) } :
                                     i \in 1..(j - 1) }) ])

FlattenFrom(ss, before) ==
  Tabulate([ k \in 1..before[Len(ss) + 1] |->
               LET j == CHOOSE j \in DOMAIN ss : before[j] < k /\ k <= before[j + 1]
               IN  ss[j][k - before[j]] ])

\* the sequences of ss one after the other
Flatten(ss) == FlattenFrom(ss, Offsets(ss))

\* lines joined by one line break, none after the last
JoinLines(ls) ==
  Flatten([ k \in DOMAIN ls |-> IF k = 1 THEN ls[k] ELSE << NL >> \o ls[k] ])

SetMin(S) == CHOOSE a \in S : \A b \in S : a <= b

SetMax(S) == CHOOSE a \in S : \A b \in S : b <= a

Sorted(T) ==
  Tabulate([ k \in 1..Cardinality(T) |->
               CHOOSE a \in T : Cardinality({ b \in T : b < a }) = k - 1 ])

\* a finite set of integers in increasing order
SortedSeq(S) == Sorted(Enumerate(S))

\* the lines of s that end before the places ends
LinesEnding(s, ends) ==
  Tabulate([ k \in 1..Len(ends) |->
               SubSeq(s, IF k = 1 THEN 1 ELSE ends[k - 1] + 1, ends[k] - 1) ])

\* str.split("\n"): the physical lines of a text
SplitLines(s) ==
  LinesEnding(s, SortedSeq({ i \in DOMAIN s : s[i] = NL } \cup { Len(s) + 1 }))

StartsWith(s, p) == Len(s) >= Len(p) /\ SubSeq(s, 1, Len(p)) = p

\* the places of the characters that are not white space
NonWs(s) == Enumerate({ i \in DOMAIN s : ~IsWs(s[i]) })

\* str.strip(): white space removed from both ends
Strip(s) ==
  LET at == NonWs(s)
  IN  IF at = {} THEN << >> ELSE SubSeq(s, SetMin(at), SetMax(at))

\* the absent value (Python None)
None == << "<None>" >>

\* x or d
OrElse(x, d) == IF x = << >> THEN d ELSE x


(***************************************************************************)
(* Exact decimals: Decimal(text) of the Python library, for the numeric    *)
(* strings [sign] digits [. digits].  The value keeps every digit typed.   *)
(***************************************************************************)
RECURSIVE StripLeadingZeros(_)
StripLeadingZeros(ds) ==
  IF Len(ds) > 1 /\ Head(ds) = "0" THEN StripLeadingZeros(Tail(ds)) ELSE ds

\* body: the text after the sign; ip, fp: what is before and after the point
ParseParts(s, body, dots, ip, fp) ==
  IF /\ Cardinality(dots) <= 1
     /\ \A i \in DOMAIN body : i \in dots \/ body[i] \in Digit
     /\ Len(ip) + Len(fp) > 0
  THEN [ ok  |-> TRUE,
         neg |-> Head(s) = "-",
         ip  |-> StripLeadingZeros(IF ip = << >> THEN << "0" >> ELSE ip),
         fp  |-> fp ]
  ELSE [ ok |-> FALSE, neg |-> FALSE, ip |-> << >>, fp |-> << >> ]

ParseBody(s, body, dots) ==
  LET d == IF dots = {} THEN Len(body) + 1 ELSE CHOOSE i \in dots : TRUE
  IN  ParseParts(s, body, dots, SubSeq(body, 1, d - 1), SubSeq(body, d + 1, Len(body)))

ParseSigned(s, body) ==
  ParseBody(s, body, Enumerate({ i \in DOMAIN body : body[i] = "." }))

\* Decimal(s) for plain decimal text: sign, digits, at most one point
ParseDecimal(s) ==
  ParseSigned(s, IF s # << >> /\ Head(s) \in { "-", "+" } THEN Tail(s) ELSE s)

DecimalPositive(a) ==
  ~a.neg /\ \E i \in DOMAIN (a.ip \o a.fp) : (a.ip \o a.fp)[i] # "0"

(***************************************************************************)
(* Payment Model builder (swift_messages.payment_from_transaction).        *)
(* Validation order: account fields non-empty, amount positive, currency   *)
(* three letters, value date a calendar date, BIC shape.                   *)
(***************************************************************************)
DefaultCurrency == << "U", "S", "D" >>

\* the current date, as date.today().isoformat() gives it
TodayText == << "2","0","2","4","-","0","6","-","0","1" >>

Num2(s) == DigitVal(s[1]) * 10 + DigitVal(s[2])

Num4(s) == Num2(SubSeq(s, 1, 2)) * 100 + Num2(SubSeq(s, 3, 4))

IsLeap(y) == (y % 4 = 0 /\ y % 100 # 0) \/ y % 400 = 0

DaysIn(y, m) ==
  IF m = 2 THEN (IF IsLeap(y) THEN 29 ELSE 28)
  ELSE IF m \in { 4, 6, 9, 11 } THEN 30 ELSE 31

IsIsoDate(s) ==
  /\ Len(s) = 10
  /\ s[5] = "-" /\ s[8] = "-"
  /\ \A i \in { 1, 2, 3, 4, 6, 7, 9, 10 } : s[i] \in Digit
  /\ Num4(SubSeq(s, 1, 4)) >= 1
  /\ Num2(SubSeq(s, 6, 7)) \in 1..12
  /\ Num2(SubSeq(s, 9, 10)) >= 1
  /\ Num2(SubSeq(s, 9, 10)) <= DaysIn(Num4(SubSeq(s, 1, 4)), Num2(SubSeq(s, 6, 7)))

IsBicShape(b) ==
  /\ Len(b) \in { 8, 11 }
  /\ \A i \in 1..6 : b[i] \in Upper
  /\ \A i \in 7..Len(b) : b[i] \in Upper \cup Digit

IsCurrencyShape(c) == Len(c) = 3 /\ \A i \in 1..3 : c[i] \in Upper

InputError(f) == [ ok |-> FALSE, err |-> "InputError", field |-> f ]

\* kw: the keyword arguments; gen: the unique identifier this call generates
\* when no reference is given
payment_from_transaction(kw, gen) ==
  LET cur  == ToUpper(IF kw.currency = None THEN DefaultCurrency ELSE kw.currency)
      date == IF kw.value_date = None THEN TodayText ELSE kw.value_date
  IN  IF kw.account_number = << >> THEN InputError("ordering_account")
      ELSE IF kw.account_name = << >> THEN InputError("ordering_name")
      ELSE IF kw.beneficiary_account = << >> THEN InputError("beneficiary_account")
      ELSE IF kw.beneficiary_name = << >> THEN InputError("beneficiary_name")
      ELSE IF ~DecimalPositive(kw.amount) THEN InputError("amount")
      ELSE IF ~IsCurrencyShape(cur) THEN InputError("currency")
      ELSE IF ~IsIsoDate(date) THEN InputError("value_date")
      ELSE IF kw.beneficiary_bic # None /\ ~IsBicShape(kw.beneficiary_bic)
           THEN InputError("beneficiary_bic")
      ELSE [ ok |-> TRUE,
             p  |-> [ ordering_account    |-> kw.account_number,
                      ordering_name       |-> kw.account_name,
                      beneficiary_account |-> kw.beneficiary_account,
                      beneficiary_name    |-> kw.beneficiary_name,
                      beneficiary_bic     |-> kw.beneficiary_bic,
                      amount              |-> kw.amount,
                      currency            |-> cur,
                      value_date          |-> date,
                      remittance_info     |-> IF kw.remittance_info = None
                                              THEN << >> ELSE kw.remittance_info,
                      reference           |-> IF kw.reference = None
                                              THEN gen ELSE kw.reference ] ]

(***************************************************************************)
(* The form's field values become a Payment.                               *)
(***************************************************************************)
OrNone(x) == IF x = << >> THEN None ELSE x

\* SwiftGUI._collect_payment: raises ValueError on an amount that is no number
gui_collect_payment(form, gen) ==
  LET amount == ParseDecimal(Strip(form.amount))
  IN  IF ~amount.ok
      THEN [ ok |-> FALSE, err |-> "ValueError", field |-> "amount" ]
      ELSE payment_from_transaction(
             [ account_number      |-> Strip(form.ordering_account),
               account_name        |-> Strip(form.ordering_name),
               beneficiary_account |-> Strip(form.beneficiary_account),
               beneficiary_name    |-> Strip(form.beneficiary_name),
               amount              |-> amount,
               currency            |-> OrElse(Strip(form.currency), DefaultCurrency),
               value_date          |-> OrNone(Strip(form.value_date)),
               remittance_info     |-> OrNone(Strip(form.remittance)),
               beneficiary_bic     |-> OrNone(Strip(form.beneficiary_bic)),
               reference           |-> OrNone(Strip(form.reference)) ], gen)

\* _build_payment_dict: None (after st.error) on an amount that is no number
st_build_payment_dict(form, gen) ==
  LET amt == ParseDecimal(Strip(form.amount))
  IN  IF ~amt.ok
      THEN [ ok |-> FALSE, err |-> "None", field |-> "amount" ]
      ELSE payment_from_transaction(
             [ account_number      |-> Strip(form.ordering_account),
               account_name        |-> Strip(form.ordering_name),
               beneficiary_account |-> Strip(form.beneficiary_account),
               beneficiary_name    |-> Strip(form.beneficiary_name),
               amount              |-> amt,
               currency            |-> OrElse(Strip(form.currency), DefaultCurrency),
               value_date          |-> OrNone(Strip(form.value_date)),
               remittance_info     |-> OrNone(Strip(form.remittance)),
               beneficiary_bic     |-> OrNone(Strip(form.beneficiary_bic)),
               reference           |-> OrNone(Strip(form.reference)) ], gen)

(***************************************************************************)
(* MT103 generator (swift_messages.generate_mt103).                        *)
(***************************************************************************)
LineWidth == 35
MaxFieldLines == 4

T20  == << ":", "2", "0", ":" >>
T23B == << ":", "2", "3", "B", ":" >>
T32A == << ":", "3", "2", "A", ":" >>
T50K == << ":", "5", "0", "K", ":" >>
T59  == << ":", "5", "9", ":" >>
T70  == << ":", "7", "0", ":" >>
T71A == << ":", "7", "1", "A", ":" >>

\* the tags in their fixed order; :70: is the optional one
MtTags ==
  << [ name |-> ":20:",  chars |-> T20,  mandatory |-> TRUE,  wrapped |-> FALSE ],
     [ name |-> ":23B:", chars |-> T23B, mandatory |-> TRUE,  wrapped |-> FALSE ],
     [ name |-> ":32A:", chars |-> T32A, mandatory |-> TRUE,  wrapped |-> FALSE ],
     [ name |-> ":50K:", chars |-> T50K, mandatory |-> TRUE,  wrapped |-> TRUE ],
     [ name |-> ":59:",  chars |-> T59,  mandatory |-> TRUE,  wrapped |-> TRUE ],
     [ name |-> ":70:",  chars |-> T70,  mandatory |-> FALSE, wrapped |-> TRUE ],
     [ name |-> ":71A:", chars |-> T71A, mandatory |-> TRUE,  wrapped |-> FALSE ] >>

\* the words of a text: its maximal runs of characters that are not white space
WordStarts(s) == Enumerate({ i \in NonWs(s) : i = 1 \/ IsWs(s[i - 1]) })

WordEnds(s) == Enumerate({ i \in NonWs(s) : i = Len(s) \/ IsWs(s[i + 1]) })

\* sequences a and b of one length as the sequence of the pairs
PairUp(a, b) == Tabulate([ k \in 1..Len(a) |-> << a[k], b[k] >> ])

PiecesOf(s, w, starts, ends, at) ==
  LET WordStartOf(i) == SetMax({ a \in starts : a <= i })
  IN  PairUp(SortedSeq({ i \in at : (i - WordStartOf(i)) % w = 0 }),
             SortedSeq({ i \in at : i \in ends \/ (i - WordStartOf(i) + 1) % w = 0 }))

\* the pieces a text is wrapped from: its words, a word longer than w cut into
\* pieces of w characters.  A piece is the pair of its first and last place.
Pieces(s, w) == PiecesOf(s, w, WordStarts(s), WordEnds(s), NonWs(s))

\* the first piece of each line (Len(ps) + 1: there is no such line): a line
\* takes pieces, joined by one space, while it stays within w characters
LineStarts(s, ps, w) ==
  LET n == Len(ps)
      \* the length of the line made of pieces i..j
      Width(i, j) ==
        Cardinality({ q \in ps[i][1]..ps[j][2] : ~IsWs(s[q]) }) + (j - i)
      \* the last piece of the line that starts with piece i
      Fit(i) == SetMax({ j \in i..n : Width(i, j) <= w })
      Start[k \in 1..(n + 1)] ==
        IF k = 1 THEN 1
        ELSE LET prev == Start[k - 1]
             IN  IF prev > n THEN n + 1 ELSE Fit(prev) + 1
  IN  Tabulate(Start)

\* the lines whose first pieces are first
LinesFrom(s, ps, first) ==
  LET Line(i, j) ==
        Flatten([ t \in 1..(j - i + 1) |->
                    IF t = 1 THEN SubSeq(s, ps[i][1], ps[i][2])
                    ELSE << SP >> \o SubSeq(s, ps[i + t - 1][1], ps[i + t - 1][2]) ])
  IN  Tabulate([ k \in 1..Cardinality({ k \in 1..Len(ps) : first[k] <= Len(ps) }) |->
                   Line(first[k], first[k + 1] - 1) ])

WrapPieces(s, ps, w) == LinesFrom(s, ps, LineStarts(s, ps, w))

\* greedy word wrap
WrapLines(s, w) == WrapPieces(s, Pieces(s, w), w)

\* a rule that takes the last line of the budget for overflow already
FieldLinesEarly(all) ==
  [ lines    |-> IF Len(all) > MaxFieldLines THEN SubSeq(all, 1, MaxFieldLines) ELSE all,
    overflow |-> Len(all) >= MaxFieldLines ]

\* the 35-character, 4-line rule; overflow: the remainder is cut off and flagged
FieldLines(all) ==
  [ lines    |-> IF Len(all) > MaxFieldLines THEN SubSeq(all, 1, MaxFieldLines) ELSE all,
    overflow |-> Len(all) > MaxFieldLines ]

WrapField(s) == FieldLines(WrapLines(s, LineWidth))

\* comma as the fractional separator, at least two fractional digits
MtAmount(a) ==
  a.ip \o << "," >> \o (IF Len(a.fp) < 2 THEN a.fp \o Rep("0", 2 - Len(a.fp)) ELSE a.fp)

\* YYYY-MM-DD to YYMMDD
MtDate(d) == SubSeq(d, 3, 4) \o SubSeq(d, 6, 7) \o SubSeq(d, 9, 10)

\* the lines of :70:, none for no remittance information
RemittanceLines(rem) ==
  IF rem = << >> THEN << >> ELSE << T70 \o rem[1] >> \o Tail(rem)

Mt103Lines(p) ==
         << T20 \o p.reference >>
      \o << T23B \o << "C", "R", "E", "D" >> >>
      \o << T32A \o MtDate(p.value_date) \o p.currency \o MtAmount(p.amount) >>
      \o << T50K \o << "/" >> \o p.ordering_account >>
      \o WrapField(p.ordering_name).lines
      \o (IF p.beneficiary_bic = None
          THEN << T59 \o << "/" >> \o p.beneficiary_account >>
          ELSE << T59 \o p.beneficiary_bic, << "/" >> \o p.beneficiary_account >>)
      \o WrapField(p.beneficiary_name).lines
      \o RemittanceLines(WrapField(p.remittance_info).lines)
      \o << T71A \o << "O", "U", "R" >> >>

generate_mt103(p) == JoinLines(Mt103Lines(p))

(***************************************************************************)
(* MT103 validator (swift_iso_validator.validate_mt103_text).              *)
(* An issue is a sequence of strings: what is wrong, and with which tag.   *)
(***************************************************************************)
\* the tag a physical line starts with (its place in MtTags), 0 for none
TagOf(line) ==
  IF \E i \in DOMAIN MtTags : StartsWith(line, MtTags[i].chars)
  THEN CHOOSE i \in DOMAIN MtTags : StartsWith(line, MtTags[i].chars)
  ELSE 0

\* the tags of the lines at the places at
TagsAt(lines, at) == Tabulate([ j \in 1..Len(at) |-> TagOf(lines[at[j]]) ])

\* the tags of a text in their order of appearance
TagSeq(lines) == TagsAt(lines, SortedSeq({ k \in DOMAIN lines : TagOf(lines[k]) # 0 }))

\* the field each physical line belongs to: the tag of the last tag line so far
FieldsAt(lines, at) ==
  Tabulate([ k \in DOMAIN lines |->
               IF \E j \in at : j <= k
               THEN TagOf(lines[SetMax({ j \in at : j <= k })]) ELSE 0 ])

FieldOf(lines) == FieldsAt(lines, Enumerate({ k \in DOMAIN lines : TagOf(lines[k]) # 0 }))

\* what follows the tag on a tag line, the whole line otherwise
LineContent(line) ==
  IF TagOf(line) = 0 THEN line
  ELSE SubSeq(line, Len(MtTags[TagOf(line)].chars) + 1, Len(line))

\* 6 digits, 3 upper-case letters, digits with a comma before the fraction
Is32AValue(v) ==
  /\ Len(v) >= 11
  /\ \A i \in 1..6 : v[i] \in Digit
  /\ \A i \in 7..9 : v[i] \in Upper
  /\ LET amt    == SubSeq(v, 10, Len(v))
         commas == { i \in DOMAIN amt : amt[i] = "," }
     IN  /\ Cardinality(commas) = 1
         /\ amt[1] \in Digit
         /\ \A i \in DOMAIN amt : i \in commas \/ amt[i] \in Digit

Count(seq, x) == Cardinality({ i \in DOMAIN seq : seq[i] = x })

\* tags: the tags in their order of appearance; field: the field of each line
IssuesIn(lines, tags, field) ==
  LET Missing(i) ==
        IF MtTags[i].mandatory /\ Count(tags, i) = 0
        THEN << << "missing mandatory tag", MtTags[i].name >> >> ELSE << >>
      Bad32A(k) ==
        IF TagOf(lines[k]) = 3 /\ ~Is32AValue(LineContent(lines[k]))
        THEN << << "malformed value", ":32A:" >> >> ELSE << >>
      TooLong(k) ==
        IF field[k] # 0 /\ MtTags[field[k]].wrapped
           /\ Len(LineContent(lines[k])) > LineWidth
        THEN << << "line longer than 35 characters", MtTags[field[k]].name >> >>
        ELSE << >>
      Duplicate(i) ==
        IF Count(tags, i) > 1
        THEN << << "tag appears more than once", MtTags[i].name >> >> ELSE << >>
      OutOfOrder(k) ==
        IF k > 1 /\ tags[k] < tags[k - 1]
        THEN << << "tag out of order", MtTags[tags[k]].name >> >> ELSE << >>
  IN  Flatten(   [ i \in 1..Len(MtTags) |-> Missing(i) ]
              \o [ i \in 1..Len(lines) |-> Bad32A(i) ]
              \o [ i \in 1..Len(lines) |-> TooLong(i) ]
              \o [ i \in 1..Len(MtTags) |-> Duplicate(i) ]
              \o [ i \in 1..Len(tags) |-> OutOfOrder(i) ])

\* a validator that checks only the tags that are there
IssuesOfLinesPresent(lines) ==
  SelectSeq(IssuesIn(lines, TagSeq(lines), FieldOf(lines)),
            LAMBDA e : e[1] # "missing mandatory tag")

IssuesOfLines(lines) == IssuesIn(lines, TagSeq(lines), FieldOf(lines))

\* the issues, in the order of the checks
Mt103Issues(text) == IssuesOfLines(SplitLines(text))

\* a result is valid iff it has no issue
ResultOf(issues) == [ valid |-> issues = << >>, errors |-> issues ]

\* (valid, issues): valid iff no issue
validate_mt103_text(text) == ResultOf(Mt103Issues(text))

(***************************************************************************)
(* pain.001 generator (swift_messages.generate_pain001).                   *)
(***************************************************************************)
XmlDecl == "<?xml version=\"1.0\" encoding=\"UTF-8\"?>"

Open(n) == "<" \o n \o ">"

Close(n) == "</" \o n \o ">"

\* the start tag of the instructed amount up to its currency attribute's value,
\* and what ends that start tag
InstdAmtOpen == "<InstdAmt Ccy=\""
AttrEnd == "\">"

ElementNames ==
  { "Document", "CstmrCdtTrfInitn", "GrpHdr", "MsgId", "CreDtTm", "NbOfTxs",
    "CtrlSum", "InitgPty", "Nm", "PmtInf", "PmtInfId", "PmtMtd", "ReqdExctnDt",
    "Dbtr", "DbtrAcct", "Id", "IBAN", "CdtTrfTxInf", "PmtId", "EndToEndId",
    "Amt", "InstdAmt", "CdtrAgt", "FinInstnId", "BIC", "Cdtr", "CdtrAcct",
    "RmtInf", "Ustrd" }

El(n, content) == << Open(n) >> \o content \o << Close(n) >>

\* the five reserved characters and their entities
Entity(c) ==
  CASE c = "&"  -> << "&", "a", "m", "p", ";" >>
    [] c = "<"  -> << "&", "l", "t", ";" >>
    [] c = ">"  -> << "&", "g", "t", ";" >>
    [] c = "\"" -> << "&", "q", "u", "o", "t", ";" >>
    [] c = "'"  -> << "&", "a", "p", "o", "s", ";" >>
    [] OTHER    -> << c >>

Entities == { Entity(c) : c \in { "&", "<", ">", "\"", "'" } }

XmlEscape(s) == Flatten([ i \in DOMAIN s |-> Entity(s[i]) ])

\* the digits of a natural number
RECURSIVE NatDigits(_)
NatDigits(n) ==
  IF n < 10 THEN << DigitSeq[n + 1] >>
  ELSE Append(NatDigits(n \div 10), DigitSeq[(n % 10) + 1])

\* the natural number a digit sequence writes
RECURSIVE DigitsNat(_)
DigitsNat(ds) ==
  IF ds = << >> THEN 0
  ELSE DigitsNat(SubSeq(ds, 1, Len(ds) - 1)) * 10 + DigitVal(ds[Len(ds)])

\* cents, with the digits rest after them rounded away, half to even
RoundedCents(cents, rest) ==
  LET half == rest # << >> /\ rest[1] = "5" /\ \A i \in 2..Len(rest) : rest[i] = "0"
  IN  IF rest # << >> /\ (IF half THEN cents % 2 = 1 ELSE DigitVal(rest[1]) >= 5)
      THEN cents + 1 ELSE cents

\* the digits of a number of cents as an amount: a point before the last two
CentsText(ds) ==
  SubSeq(ds, 1, Len(ds) - 2) \o << "." >> \o SubSeq(ds, Len(ds) - 1, Len(ds))

\* at least three digits
PadCents(ds) == IF Len(ds) < 3 THEN Rep("0", 3 - Len(ds)) \o ds ELSE ds

\* the amount with the digits that were typed
XmlAmountAsTyped(a) ==
  IF a.fp = << >> THEN a.ip ELSE a.ip \o << "." >> \o a.fp

\* exactly two fractional digits after a decimal point; further digits are
\* rounded away, half to even
XmlAmount(a) ==
  CentsText(PadCents(NatDigits(
    RoundedCents(DigitsNat(a.ip \o SubSeq(a.fp \o << "0", "0" >>, 1, 2)),
                 SubSeq(a.fp, 3, Len(a.fp))))))

\* amt: the amount as the control sum and the instructed amount write it
Pain001Document(p, now, amt) ==
  LET Txt(n, v) == El(n, XmlEscape(v))
      Acct(n, v) == El(n, El("Id", Txt("IBAN", v)))
  IN  << XmlDecl >>
      \o El("Document", El("CstmrCdtTrfInitn",
            El("GrpHdr",
                  Txt("MsgId", << "M", "S", "G", "-" >> \o p.reference)
               \o Txt("CreDtTm", now)
               \o Txt("NbOfTxs", << "1" >>)
               \o Txt("CtrlSum", amt)
               \o El("InitgPty", Txt("Nm", p.ordering_name)))
         \o El("PmtInf",
                  Txt("PmtInfId", << "P", "M", "T", "-" >> \o p.reference)
               \o Txt("PmtMtd", << "T", "R", "F" >>)
               \o Txt("ReqdExctnDt", p.value_date)
               \o El("Dbtr", Txt("Nm", p.ordering_name))
               \o Acct("DbtrAcct", p.ordering_account)
               \o El("CdtTrfTxInf",
                     El("PmtId", Txt("EndToEndId", p.reference))
                  \o El("Amt", << InstdAmtOpen >> \o p.currency \o << AttrEnd >>
                                  \o amt \o << Close("InstdAmt") >>)
                  \o (IF p.beneficiary_bic = None THEN << >>
                      ELSE El("CdtrAgt", El("FinInstnId", Txt("BIC", p.beneficiary_bic))))
                  \o El("Cdtr", Txt("Nm", p.beneficiary_name))
                  \o Acct("CdtrAcct", p.beneficiary_account)
                  \o (IF p.remittance_info = << >> THEN << >>
                      ELSE El("RmtInf", Txt("Ustrd", p.remittance_info)))))))

\* now: the creation timestamp, the one field that varies between calls
generate_pain001(p, now) == Pain001Document(p, now, XmlAmount(p.amount))

(***************************************************************************)
(* pain.001 validator (swift_iso_validator.validate_pain001_generated).    *)
(* Stage 1 parses the text; stage 2 validates the document against the     *)
(* schema, when a schema reference is supplied.                            *)
(***************************************************************************)
OpenTokens == { Open(n) : n \in ElementNames } \cup { InstdAmtOpen }

CloseTokens == { Close(n) : n \in ElementNames }

MarkupTokens == OpenTokens \cup CloseTokens \cup { XmlDecl, AttrEnd }

\* the element a start or end tag names
NameOf(tok) ==
  IF tok = InstdAmtOpen THEN "InstdAmt"
  ELSE CHOOSE n \in ElementNames : tok \in { Open(n), Close(n) }

\* how many elements are open before each place of a text of n places
DepthOf(n, opens, closes) ==
  Tabulate([ i \in 1..(n + 1) |->
               Cardinality({ j \in opens : j < i }) - Cardinality({ j \in closes : j < i }) ])

\* opens, closes: the places of the start and the end tags; attrFrom: the
\* places where a start tag with an attribute begins
WellFormedWith(text, opens, closes, depth, attrFrom) ==
  LET n == Len(text)
      \* the start tag an end tag at j closes
      MatchOf(j) == SetMax({ i \in opens : i < j /\ depth[i] = depth[j] - 1 })
      \* the places of an attribute value: after the attribute's start, up to
      \* what ends the start tag
      EndOf(i) == SetMin({ j \in (i + 1)..n : text[j] \in MarkupTokens } \cup { n + 1 })
      EntityAt(i) == \E e \in Entities : StartsWith(SubSeq(text, i, n), e)
  IN  /\ n > 0
      /\ \A i \in 1..n : text[i] = XmlDecl => i = 1
      /\ \A j \in closes : depth[j] >= 1 /\ NameOf(text[MatchOf(j)]) = NameOf(text[j])
      /\ depth[n + 1] = 0
      /\ Cardinality({ i \in opens : depth[i] = 0 }) = 1
      /\ \A i \in attrFrom : EndOf(i) <= n /\ text[EndOf(i)] = AttrEnd
      /\ \A j \in 1..n : text[j] = AttrEnd => \E i \in attrFrom : EndOf(i) = j
      /\ \A i \in 1..n :
           text[i] \notin MarkupTokens =>
             /\ text[i] # "<"
             /\ text[i] = "&" => EntityAt(i)
             /\ (\E a \in attrFrom : a < i /\ i < EndOf(a)) => text[i] # "\""
             /\ depth[i] = 0 => IsWs(text[i])

WellFormedAt(text, opens, closes) ==
  WellFormedWith(text, opens, closes, DepthOf(Len(text), opens, closes),
                 Enumerate({ i \in DOMAIN text : text[i] = InstdAmtOpen }))

\* stage 1: is the text a well-formed document
XmlWellFormed(text) ==
  WellFormedAt(text, Enumerate({ i \in DOMAIN text : text[i] \in OpenTokens }),
               Enumerate({ i \in DOMAIN text : text[i] \in CloseTokens }))

\* the tags of a document in their order, its character data left out
Skeleton(text) == SelectSeq(text, LAMBDA t : t \in OpenTokens \cup CloseTokens)

\* the element structure the schema of the pain.001 profile accepts
Pain001Skeleton(withBic, withRmt) ==
  LET Leaf(n) == El(n, << >>)
      Acct(n) == El(n, El("Id", Leaf("IBAN")))
  IN  El("Document", El("CstmrCdtTrfInitn",
           El("GrpHdr", Leaf("MsgId") \o Leaf("CreDtTm") \o Leaf("NbOfTxs")
                        \o Leaf("CtrlSum") \o El("InitgPty", Leaf("Nm")))
        \o El("PmtInf", Leaf("PmtInfId") \o Leaf("PmtMtd") \o Leaf("ReqdExctnDt")
                        \o El("Dbtr", Leaf("Nm")) \o Acct("DbtrAcct")
                        \o El("CdtTrfTxInf",
                                 El("PmtId", Leaf("EndToEndId"))
                              \o El("Amt", << InstdAmtOpen, Close("InstdAmt") >>)
                              \o (IF withBic
                                  THEN El("CdtrAgt", El("FinInstnId", Leaf("BIC")))
                                  ELSE << >>)
                              \o El("Cdtr", Leaf("Nm")) \o Acct("CdtrAcct")
                              \o (IF withRmt THEN El("RmtInf", Leaf("Ustrd"))
                                  ELSE << >>)))))

\* what a schema file holds: the schema of the pain.001 profile, or the schema
\* of another message
SchemaKinds == { "pain001", "other" }

\* stage 2: one issue for each violation of the schema
SchemaViolations(text, kind) ==
  IF kind = "other"
  THEN << << "element not expected by the schema", "Document" >> >>
  ELSE IF Skeleton(text) \in { Pain001Skeleton(b, r) : b, r \in BOOLEAN }
       THEN << >>
       ELSE << << "element structure not allowed by the schema", "Document" >> >>

\* the result of stage 2
SchemaOutcome(issues) ==
  [ raised |-> "none", valid |-> issues = << >>, errors |-> issues,
    stages |-> << "parse", "schema" >> ]

\* a validator that looks for the schema before it parses the document
validate_pain001_schema_first(xml, xsd_path, file) ==
  IF xsd_path # None /\ file \notin SchemaKinds
  THEN [ raised |-> "SchemaNotFoundError", valid |-> FALSE, errors |-> << >>,
         stages |-> << >> ]
  ELSE IF ~XmlWellFormed(xml)
  THEN [ raised |-> "none", valid |-> FALSE,
         errors |-> << << "XML parse error" >> >>, stages |-> << "parse" >> ]
  ELSE IF xsd_path = None
  THEN [ raised |-> "none", valid |-> TRUE, errors |-> << >>,
         stages |-> << "parse" >> ]
  ELSE SchemaOutcome(SchemaViolations(xml, file))

\* file: what is at the schema reference ("missing", "unreadable" or a schema
\* kind); xsd_path = None: no schema reference is supplied; stages: the stages
\* that ran
validate_pain001_generated(xml, xsd_path, file) ==
  IF ~XmlWellFormed(xml)
  THEN [ raised |-> "none", valid |-> FALSE,
         errors |-> << << "XML parse error" >> >>, stages |-> << "parse" >> ]
  ELSE IF xsd_path = None
  THEN [ raised |-> "none", valid |-> TRUE, errors |-> << >>,
         stages |-> << "parse" >> ]
  ELSE IF file \notin SchemaKinds
  THEN [ raised |-> "SchemaNotFoundError", valid |-> FALSE, errors |-> << >>,
         stages |-> << "parse", "schema" >> ]
  ELSE SchemaOutcome(SchemaViolations(xml, file))

(***************************************************************************)
(* The values a user types into the form.                                  *)
(***************************************************************************)
\* the length of the unbroken run of characters before the line break
PadLen == 33

\* the worked example of the specification
FormExample ==
  [
    ordering_name       |-> << "A", "c", "m", "e", SP, "G", "m", "b", "H" >>,
    ordering_account    |-> << "D", "E", "8", "9", "3", "7", "0", "4", "0", "0", "4", "4", "0", "5", "3", "2", "0", "1", "3", "0", "0", "0" >>,
    beneficiary_name    |-> << "G", "l", "o", "b", "e", "x", SP, "S", "A" >>,
    beneficiary_account |-> << "F", "R", "1", "4", "2", "0", "0", "4", "1", "0", "1", "0", "0", "5", "0", "5", "0", "0", "0", "1", "3", "M", "0", "2", "6", "0", "6" >>,
    beneficiary_bic     |-> <<  >>,
    amount              |-> << "1", "2", "3", "4", ".", "5", "6" >>,
    currency            |-> << "E", "U", "R" >>,
    value_date          |-> << "2", "0", "2", "4", "-", "0", "6", "-", "0", "1" >>,
    remittance          |-> << "I", "n", "v", "o", "i", "c", "e", SP, "1", "2", "3" >>,
    reference           |-> << "R", "E", "F", "0", "0", "1" >> ]

\* blanks where a default applies, white space around the values, a BIC
FormDefaults ==
  [
    ordering_name       |-> << SP, "A", "c", "m", "e", SP, "G", "m", "b", "H", SP >>,
    ordering_account    |-> << "D", "E", "8", "9", "3", "7", "0", "4", "0", "0", "4", "4", "0", "5", "3", "2", "0", "1", "3", "0", "0", "0" >>,
    beneficiary_name    |-> << "G", "l", "o", "b", "e", "x", SP, "S", "A" >>,
    beneficiary_account |-> << "F", "R", "1", "4", "2", "0", "0", "4", "1", "0", "1", "0", "0", "5", "0", "5", "0", "0", "0", "1", "3", "M", "0", "2", "6", "0", "6" >>,
    beneficiary_bic     |-> << "D", "E", "U", "T", "D", "E", "F", "F" >>,
    amount              |-> << SP, "5", SP >>,
    currency            |-> <<  >>,
    value_date          |-> <<  >>,
    remittance          |-> <<  >>,
    reference           |-> <<  >> ]

\* remittance text with a line break, whose second line reads like a tag
FormTagLike ==
  [
    ordering_name       |-> << "A", "c", "m", "e", SP, "G", "m", "b", "H" >>,
    ordering_account    |-> << "D", "E", "8", "9", "3", "7", "0", "4", "0", "0", "4", "4", "0", "5", "3", "2", "0", "1", "3", "0", "0", "0" >>,
    beneficiary_name    |-> << "G", "l", "o", "b", "e", "x", SP, "S", "A" >>,
    beneficiary_account |-> << "F", "R", "1", "4", "2", "0", "0", "4", "1", "0", "1", "0", "0", "5", "0", "5", "0", "0", "0", "1", "3", "M", "0", "2", "6", "0", "6" >>,
    beneficiary_bic     |-> <<  >>,
    amount              |-> << "1", "0", ".", "5" >>,
    currency            |-> << "u", "s", "d" >>,
    value_date          |-> << "2", "0", "2", "4", "-", "0", "6", "-", "0", "1" >>,
    remittance          |-> Rep("x", PadLen) \o << NL, ":", "2", "0", ":", "F", "A", "K", "E" >>,
    reference           |-> << "R", "E", "F", "0", "0", "1" >> ]

\* an amount that is no number
FormBadAmount ==
  [
    ordering_name       |-> << "A", "c", "m", "e", SP, "G", "m", "b", "H" >>,
    ordering_account    |-> << "D", "E", "8", "9", "3", "7", "0", "4", "0", "0", "4", "4", "0", "5", "3", "2", "0", "1", "3", "0", "0", "0" >>,
    beneficiary_name    |-> << "G", "l", "o", "b", "e", "x", SP, "S", "A" >>,
    beneficiary_account |-> << "F", "R", "1", "4", "2", "0", "0", "4", "1", "0", "1", "0", "0", "5", "0", "5", "0", "0", "0", "1", "3", "M", "0", "2", "6", "0", "6" >>,
    beneficiary_bic     |-> <<  >>,
    amount              |-> << "a", "b", "c" >>,
    currency            |-> << "E", "U", "R" >>,
    value_date          |-> << "2", "0", "2", "4", "-", "0", "6", "-", "0", "1" >>,
    remittance          |-> << "I", "n", "v", "o", "i", "c", "e", SP, "1", "2", "3" >>,
    reference           |-> << "R", "E", "F", "0", "0", "1" >> ]

\* an amount that is not positive
FormNegAmount ==
  [
    ordering_name       |-> << "A", "c", "m", "e", SP, "G", "m", "b", "H" >>,
    ordering_account    |-> << "D", "E", "8", "9", "3", "7", "0", "4", "0", "0", "4", "4", "0", "5", "3", "2", "0", "1", "3", "0", "0", "0" >>,
    beneficiary_name    |-> << "G", "l", "o", "b", "e", "x", SP, "S", "A" >>,
    beneficiary_account |-> << "F", "R", "1", "4", "2", "0", "0", "4", "1", "0", "1", "0", "0", "5", "0", "5", "0", "0", "0", "1", "3", "M", "0", "2", "6", "0", "6" >>,
    beneficiary_bic     |-> <<  >>,
    amount              |-> << "-", "5" >>,
    currency            |-> << "E", "U", "R" >>,
    value_date          |-> << "2", "0", "2", "4", "-", "0", "6", "-", "0", "1" >>,
    remittance          |-> << "I", "n", "v", "o", "i", "c", "e", SP, "1", "2", "3" >>,
    reference           |-> << "R", "E", "F", "0", "0", "1" >> ]

\* a 4-character BIC and no beneficiary name
FormBadFields ==
  [
    ordering_name       |-> << "A", "c", "m", "e", SP, "G", "m", "b", "H" >>,
    ordering_account    |-> << "D", "E", "8", "9", "3", "7", "0", "4", "0", "0", "4", "4", "0", "5", "3", "2", "0", "1", "3", "0", "0", "0" >>,
    beneficiary_name    |-> << SP, SP >>,
    beneficiary_account |-> << "F", "R", "1", "4", "2", "0", "0", "4", "1", "0", "1", "0", "0", "5", "0", "5", "0", "0", "0", "1", "3", "M", "0", "2", "6", "0", "6" >>,
    beneficiary_bic     |-> << "D", "E", "U", "T" >>,
    amount              |-> << "1", "2", "3", "4", ".", "5", "6" >>,
    currency            |-> << "E", "U", "R" >>,
    value_date          |-> << "2", "0", "2", "4", "-", "0", "6", "-", "0", "1" >>,
    remittance          |-> << "I", "n", "v", "o", "i", "c", "e", SP, "1", "2", "3" >>,
    reference           |-> << "R", "E", "F", "0", "0", "1" >> ]

FormList ==
  << FormExample, FormTagLike, FormBadAmount, FormNegAmount, FormDefaults,
     FormBadFields >>

\* how many of the forms are drawn
NForms == 4

Forms == { FormList[i] : i \in 1..(IF NForms < Len(FormList) THEN NForms ELSE Len(FormList)) }

\* the identifiers a call may generate for a Payment without a reference
GeneratedRefs == { << "G", "1" >> }

\* the creation timestamps a call of the pain.001 generator may read
Timestamps == { << "2","0","2","4","-","0","6","-","0","1","T","1","2",":","0","0",":","0","0" >> }

(***************************************************************************)
(* The schema store: the files a schema reference may name                 *)
(***************************************************************************)
\* a path is written as one token
PathA == << "assets/schemas/a.xsd" >>
Paths == { PathA }

\* what is at a path: nothing, a file that cannot be read, or a schema
FileStates == { "missing", "unreadable" } \cup SchemaKinds

LogoPath == << "assets/logo.png" >>

(***************************************************************************)
(* What the generators and the validators give on the inputs that are      *)
(* drawn, computed once                                                    *)
(***************************************************************************)
Computed(f) == f @@ << >>

\* the Payments the forms give
Payments ==
  { b.p : b \in { r \in { gui_collect_payment(form, gen) :
                            form \in Forms, gen \in GeneratedRefs }
                        \cup { st_build_payment_dict(form, gen) :
                                 form \in Forms, gen \in GeneratedRefs } : r.ok } }

Mt103Of == Computed([ p \in Payments |-> generate_mt103(p) ])

Pain001Of ==
  Computed([ a \in Payments \X Timestamps |-> generate_pain001(a[1], a[2]) ])

\* the values of two functions
ValuesOf(f, g) == { f[a] : a \in DOMAIN f } \cup { g[a] : a \in DOMAIN g }

Texts == ValuesOf(Mt103Of, Pain001Of)

Mt103Result == Computed([ text \in Texts |-> validate_mt103_text(text) ])

Pain001Result ==
  Computed([ a \in Texts \X (Paths \cup { None }) \X FileStates |->
               validate_pain001_generated(a[1], a[2], a[3]) ])

(***************************************************************************)
(* State                                                                   *)
(***************************************************************************)
VARIABLES
  app,                      \* the program that runs: "gui" or "streamlit"
  files,                    \* the file system: what is at each schema path
  schema_path,              \* SwiftGUI.schema_path
  last_validation_result,   \* SwiftGUI.last_validation_result
  preview,                  \* SwiftGUI.preview (its plain text)
  format_checked,           \* SwiftGUI.format_group.checkedId(): 0 MT, 1 XML
  validation_status_label,  \* SwiftGUI.validation_status_label
  session_state,            \* st.session_state
  widgets,                  \* the state of the Streamlit widgets
  config,                   \* config.json
  shown,                    \* what produced the preview, what was validated
  ev                        \* what the last action did

vars ==
  << app, files, schema_path, last_validation_result, preview, format_checked,
     validation_status_label, session_state, widgets, config, shown, ev >>

guiVars ==
  << schema_path, last_validation_result, preview, format_checked,
     validation_status_label >>

stVars == << session_state, widgets, config >>

NoResult == [ valid |-> FALSE, errors |-> << >> ]

\* what an action did: the outcome of building the Payment, the generators and
\* validators it invoked (a validator with the generator of the text it was run
\* on), the validation result it stored, the transports it handed the message
\* to, the stored validity it saw and the override it was given, the error it
\* showed, what a validator that was called on its own returned
Quiet(a) ==
  [ act        |-> a,
    built      |-> "none",
    generators |-> << >>,
    validators |-> << >>,
    stored     |-> << >>,
    transports |-> << >>,
    sawValid   |-> FALSE,
    confirmed  |-> FALSE,
    error      |-> "none",
    returned   |-> None ]

FileAt(path) == IF path \in DOMAIN files THEN files[path] ELSE "missing"

\* the text the preview shows
CurrentPreview ==
  IF app = "streamlit" THEN session_state.preview_content ELSE preview

\* the stored validation result
StoredResult ==
  IF app = "streamlit" THEN session_state.validation_result ELSE last_validation_result

\* the schema reference validation reads
SchemaRef ==
  IF app = "streamlit" THEN session_state.schema_path ELSE schema_path

(***************************************************************************)
(* The desktop GUI (swift_alliance_gui.py)                                 *)
(***************************************************************************)
GuiInit ==
  /\ schema_path = None
  /\ last_validation_result = NoResult
  /\ preview = << >>
  /\ format_checked = 1
  /\ validation_status_label = "Validation status: Not validated"

\* SwiftGUI._set_validation_result
SetValidationResult(valid, errors) ==
  /\ last_validation_result' = [ valid |-> valid, errors |-> errors ]
  /\ validation_status_label' =
       IF valid THEN "Validation status: VALID" ELSE "Validation status: INVALID"

NoSchemaIssueGui ==
  << << "No pain.001 XSD selected. Please select an XSD to validate." >> >>

\* a GUI that leaves validation out without saying so when no schema is selected
GuiNoSchemaSkipped == [ valid |-> TRUE, errors |-> << >> ]

\* what on_generate stores for XML when no schema is selected
GuiNoSchemaResult == [ valid |-> FALSE, errors |-> NoSchemaIssueGui ]

\* the radio buttons of the format group
GuiSelectFormat(f) ==
  /\ app = "gui"
  /\ format_checked' = f
  /\ ev' = Quiet("gui_select_format")
  /\ UNCHANGED << app, files, schema_path, last_validation_result, preview,
                  validation_status_label, stVars, shown >>

\* a schema selection that also withdraws the stored validation result
GuiSelectSchemaResets(fname) ==
  /\ app = "gui"
  /\ fname = << >> \/ (fname \in DOMAIN files /\ files[fname] # "missing")
  /\ schema_path' = IF fname # << >> THEN fname ELSE schema_path
  /\ SetValidationResult(FALSE, << >>)
  /\ ev' = Quiet("gui_select_schema")
  /\ UNCHANGED << app, files, preview, format_checked, stVars, shown >>

\* SwiftGUI.select_schema_file; the file dialog gives an existing file, or
\* nothing when it is cancelled
GuiSelectSchema(fname) ==
  /\ app = "gui"
  /\ fname = << >> \/ (fname \in DOMAIN files /\ files[fname] # "missing")
  /\ schema_path' = IF fname # << >> THEN fname ELSE schema_path
  /\ ev' = Quiet("gui_select_schema")
  /\ UNCHANGED << app, files, last_validation_result, preview, format_checked,
                  validation_status_label, stVars, shown >>

\* an except clause that also empties the preview and the stored result
GuiGenerateFailedCleared(err) ==
  /\ ev' = [ Quiet("gui_generate") EXCEPT !.built = "failed", !.error = err ]
  /\ preview' = << >>
  /\ SetValidationResult(FALSE, << >>)
  /\ UNCHANGED << schema_path, format_checked, shown >>

\* SwiftGUI.on_generate when _collect_payment raises: the except clause shows
\* the error, and no statement of the try block after the first has run
GuiGenerateFailed(err) ==
  /\ ev' = [ Quiet("gui_generate") EXCEPT !.built = "failed", !.error = err ]
  /\ UNCHANGED << guiVars, shown >>

\* on_generate with MT selected: the preview and the result of validating it
GuiGenerateMt(mt, r) ==
  /\ preview' = mt
  /\ SetValidationResult(r.valid, r.errors)
  /\ shown' = [ by |-> "mt103", validated |-> mt ]
  /\ ev' = [ Quiet("gui_generate") EXCEPT
               !.built = "ok",
               !.generators = << "mt103" >>,
               !.validators = << [ v |-> "mt103", on |-> "mt103" ] >>,
               !.stored = << [ valid |-> r.valid, errors |-> r.errors ] >> ]

\* on_generate with XML selected and a schema path set: r is what the
\* validator gives; when it raises, the except clause shows the error
GuiGenerateXml(xml, r) ==
  /\ preview' = xml
  /\ IF r.raised # "none"
     THEN /\ UNCHANGED << last_validation_result, validation_status_label >>
          /\ shown' = [ shown EXCEPT !.by = "pain001" ]
          /\ ev' = [ Quiet("gui_generate") EXCEPT
                       !.built = "ok",
                       !.generators = << "pain001" >>,
                       !.validators = << [ v |-> "pain001", on |-> "pain001" ] >>,
                       !.error = r.raised ]
     ELSE /\ SetValidationResult(r.valid, r.errors)
          /\ shown' = [ by |-> "pain001", validated |-> xml ]
          /\ ev' = [ Quiet("gui_generate") EXCEPT
                       !.built = "ok",
                       !.generators = << "pain001" >>,
                       !.validators = << [ v |-> "pain001", on |-> "pain001" ] >>,
                       !.stored = << [ valid |-> r.valid, errors |-> r.errors ] >> ]

\* on_generate with XML selected and no schema path
GuiGenerateXmlNoSchema(xml) ==
  /\ preview' = xml
  /\ SetValidationResult(GuiNoSchemaResult.valid, GuiNoSchemaResult.errors)
  /\ shown' = [ by |-> "pain001", validated |-> None ]
  /\ ev' = [ Quiet("gui_generate") EXCEPT
               !.built = "ok",
               !.generators = << "pain001" >>,
               !.stored = << GuiNoSchemaResult >> ]

\* SwiftGUI.on_generate
GuiGenerate(form, gen, now) ==
  /\ app = "gui"
  /\ \E built \in { gui_collect_payment(form, gen) } :
       IF ~built.ok
       THEN GuiGenerateFailed(built.err)
       ELSE IF format_checked = 0
       THEN \E mt \in { Mt103Of[built.p] } : GuiGenerateMt(mt, Mt103Result[mt])
       ELSE \E xml \in { Pain001Of[<< built.p, now >>] } :
              IF schema_path # None /\ schema_path # << >>
              THEN GuiGenerateXml(xml, Pain001Result[<< xml, schema_path,
                                                       FileAt(schema_path) >>])
              ELSE GuiGenerateXmlNoSchema(xml)
  /\ UNCHANGED << app, files, schema_path, format_checked, stVars >>

\* SwiftGUI.on_validate_clicked: of the two definitions in the class body the
\* second one, whose body is pass, is the method the button is connected to
GuiValidateClicked ==
  /\ app = "gui"
  /\ ev' = Quiet("gui_validate")
  /\ UNCHANGED << app, files, guiVars, stVars, shown >>

\* SwiftGUI.on_save; fname: the file name the save dialog gives, empty when it
\* is cancelled
GuiSave(fname) ==
  LET content == preview
  IN
  /\ app = "gui"
  /\ ev' = IF content = << >>
           THEN [ Quiet("gui_save") EXCEPT !.error = "Nothing to save" ]
           ELSE [ Quiet("gui_save") EXCEPT
                    !.sawValid = last_validation_result.valid,
                    !.transports = IF fname # << >> THEN << "save" >> ELSE << >> ]
  /\ UNCHANGED << app, files, guiVars, stVars, shown >>

SendOptions ==
  << "Save to file (local)", "Send by email (SMTP)", "Upload by SFTP (optional)",
     "Mock log only" >>

\* a gate that lets every message through
GuiSendStopsNever(valid, yes) == FALSE

\* the gate of on_send: an invalid message goes on only when the answer to the
\* override question is Yes
GuiSendStops(valid, yes) == ~valid /\ ~yes

\* SwiftGUI.on_send; yes: the answer to the override question; ok, choice: what
\* the dialog of send methods gives; fname: what the save dialog gives
GuiSend(yes, ok, choice, fname) ==
  LET content == preview
      valid   == last_validation_result.valid
      base    == [ Quiet("gui_send") EXCEPT !.sawValid = valid,
                                            !.confirmed = ~valid /\ yes ]
  IN
  /\ app = "gui"
  /\ ev' = IF content = << >>
           THEN [ Quiet("gui_send") EXCEPT !.error = "Nothing to send" ]
           ELSE IF GuiSendStops(valid, yes) THEN base
           ELSE IF ~ok THEN base
           ELSE IF choice = SendOptions[1]
           THEN [ base EXCEPT !.transports = IF fname # << >> THEN << "save" >>
                                              ELSE << >> ]
           ELSE IF choice = SendOptions[2] THEN [ base EXCEPT !.transports = << "smtp" >> ]
           ELSE IF choice = SendOptions[3] THEN [ base EXCEPT !.transports = << "sftp" >> ]
           ELSE [ base EXCEPT !.transports = << "mock log" >> ]
  /\ UNCHANGED << app, files, guiVars, stVars, shown >>

(***************************************************************************)
(* The Streamlit app (swift_alliance_streamlit.py).  Every interaction of  *)
(* the user with a widget runs the script once, from its top; a button     *)
(* reads true only in the run its own click starts, and a widget the run   *)
(* does not render loses its state.                                        *)
(***************************************************************************)
XML == << "XML" >>
MT == << "MT" >>

FormatOptions == << "ISO20022 pain.001 (XML)", "MT103 (text)" >>

NoUpload == [ name |-> None, kind |-> "none" ]

StInit ==
  /\ config \in [ schema_path : IF app = "streamlit" THEN { None } \cup DOMAIN files ELSE { None },
                   logo_path : { None } ]
  /\ session_state = [ schema_path      |-> config.schema_path,
                       logo_path        |-> config.logo_path,
                       preview_content  |-> << >>,
                       validation_result |-> NoResult,
                       last_format      |-> None ]
  /\ widgets = [ uploaded_xsd |-> NoUpload,
                 sel          |-> None,
                 logo_file    |-> None,
                 fmt          |-> FormatOptions[1],
                 override     |-> "absent",
                 download     |-> "absent" ]

\* the top of the script, down to the logo uploader, under the widget values w:
\* the session state, the files and the persisted config it leaves, and the
\* value the schema select box then has
StTop(w) ==
  LET up     == w.uploaded_xsd.name # None
      files1 == IF up
                THEN [ files EXCEPT ![w.uploaded_xsd.name] =
                         IF @ = "unreadable" THEN @ ELSE w.uploaded_xsd.kind ]
                ELSE files
      path1  == IF up THEN w.uploaded_xsd.name ELSE session_state.schema_path
      cfg1   == IF up
                THEN [ schema_path |-> path1, logo_path |-> session_state.logo_path ]
                ELSE config
      \* the select box offers the files of assets/schemas
      available == { q \in DOMAIN files : files1[q] # "missing" }
      sel    == IF w.sel \in available THEN w.sel ELSE None
      path2  == IF sel # None THEN sel ELSE path1
      cfg2   == IF sel # None
                THEN [ schema_path |-> path2, logo_path |-> session_state.logo_path ]
                ELSE cfg1
      logo   == IF w.logo_file # None THEN w.logo_file ELSE session_state.logo_path
      cfg3   == IF w.logo_file # None
                THEN [ schema_path |-> path2, logo_path |-> logo ]
                ELSE cfg2
  IN  [ ss     |-> [ session_state EXCEPT !.schema_path = path2, !.logo_path = logo ],
        files  |-> files1,
        config |-> cfg3,
        sel    |-> sel ]

\* the widgets a run leaves: the override check box and the download button
\* keep a state only when the run rendered them
Rendered(w, top, override, download) ==
  [ w EXCEPT !.sel = top.sel, !.override = override, !.download = download ]

\* what the top of the script leaves, with the check box and the button absent
StTopDone(top) ==
  /\ files' = top.files
  /\ config' = top.config
  /\ widgets' = Rendered(widgets, top, "absent", "absent")

\* a run none of whose buttons reads true
StRun(w, act) ==
  /\ app = "streamlit"
  /\ \E top \in { StTop(w) } :
       /\ session_state' = top.ss
       /\ files' = top.files
       /\ config' = top.config
       /\ widgets' = Rendered(w, top, "absent", "absent")
  /\ ev' = Quiet(act)
  /\ UNCHANGED << app, guiVars, shown >>

\* a file is put into the schema uploader, or taken out of it (name = None)
StUploadXsd(name, kind) ==
  /\ (name = None /\ kind = "none") \/ (name \in DOMAIN files /\ kind \in SchemaKinds)
  /\ StRun([ widgets EXCEPT !.uploaded_xsd = [ name |-> name, kind |-> kind ] ],
           "st_upload_xsd")

\* an entry of the select box of persisted schemas is chosen (None: keep current)
StSelectSchema(sel) ==
  /\ sel = None \/ (sel \in DOMAIN files /\ files[sel] # "missing")
  /\ StRun([ widgets EXCEPT !.sel = sel ], "st_select_schema")

\* a file is put into the logo uploader, or taken out of it
StUploadLogo(logo) ==
  /\ logo \in { None, LogoPath }
  /\ StRun([ widgets EXCEPT !.logo_file = logo ], "st_upload_logo")

\* the format radio
StSelectFormat(f) ==
  /\ f \in Range(FormatOptions)
  /\ StRun([ widgets EXCEPT !.fmt = f ], "st_select_format")

\* the override check box, on the page after a click on Send, is ticked
StToggleOverride ==
  /\ widgets.override # "absent"
  /\ StRun([ widgets EXCEPT !.override = "checked" ], "st_toggle_override")

NoSchemaIssueSt == << << "No schema uploaded for validation." >> >>

\* the Generate block with XML selected and a persisted schema that exists: r
\* is what the validator gives
StGenerateXml(ss, xml, r, stored) ==
  /\ session_state' = [ ss EXCEPT !.preview_content = xml,
                                  !.last_format = XML,
                                  !.validation_result = stored ]
  /\ shown' = [ by |-> "pain001",
                validated |-> IF r.raised # "none" THEN None ELSE xml ]
  /\ ev' = [ Quiet("st_generate") EXCEPT
               !.built = "ok",
               !.generators = << "pain001" >>,
               !.validators = << [ v |-> "pain001", on |-> "pain001" ] >>,
               !.stored = << stored >>,
               !.error = r.raised ]

\* an except clause that stores the failure without its message
StStoredOfSilent(r) ==
  IF r.raised # "none"
  THEN [ valid |-> FALSE, errors |-> << >> ]
  ELSE [ valid |-> r.valid, errors |-> r.errors ]

\* what the Generate block stores of what the validator gives
StStoredOf(r) ==
  IF r.raised # "none"
  THEN [ valid |-> FALSE, errors |-> << << r.raised >> >> ]
  ELSE [ valid |-> r.valid, errors |-> r.errors ]

\* the Generate block with XML selected and no persisted schema that exists
StGenerateXmlNoSchema(ss, xml) ==
  /\ session_state' = [ ss EXCEPT !.preview_content = xml,
                                  !.last_format = XML,
                                  !.validation_result =
                                    [ valid |-> FALSE, errors |-> NoSchemaIssueSt ] ]
  /\ shown' = [ by |-> "pain001", validated |-> None ]
  /\ ev' = [ Quiet("st_generate") EXCEPT
               !.built = "ok",
               !.generators = << "pain001" >>,
               !.stored = << [ valid |-> FALSE, errors |-> NoSchemaIssueSt ] >> ]

\* the Generate block with MT selected
StGenerateMt(ss, mt, r) ==
  /\ session_state' = [ ss EXCEPT !.preview_content = mt,
                                  !.last_format = MT,
                                  !.validation_result = r ]
  /\ shown' = [ by |-> "mt103", validated |-> mt ]
  /\ ev' = [ Quiet("st_generate") EXCEPT
               !.built = "ok",
               !.generators = << "mt103" >>,
               !.validators = << [ v |-> "mt103", on |-> "mt103" ] >>,
               !.stored = << r >> ]

\* what is at the persisted schema path
StFileAt(top) ==
  IF top.ss.schema_path \in DOMAIN top.files THEN top.files[top.ss.schema_path] ELSE "missing"

\* the Generate block, after the top of the script
StGenerate(top, built, now) ==
  IF ~built.ok
  THEN \* st.stop() after st.error, or the builder's exception ends the run
       /\ session_state' = top.ss
       /\ ev' = [ Quiet("st_generate") EXCEPT !.built = "failed",
                                              !.error = built.err ]
       /\ UNCHANGED shown
  ELSE IF widgets.fmt = FormatOptions[1]
  THEN \E xml \in { Pain001Of[<< built.p, now >>] } :
         IF /\ top.ss.schema_path # None
            /\ top.ss.schema_path # << >>
            /\ StFileAt(top) # "missing"
         THEN \E r \in { Pain001Result[<< xml, top.ss.schema_path, StFileAt(top) >>] } :
                StGenerateXml(top.ss, xml, r, StStoredOf(r))
         ELSE StGenerateXmlNoSchema(top.ss, xml)
  ELSE \E mt \in { Mt103Of[built.p] } : StGenerateMt(top.ss, mt, Mt103Result[mt])

\* the run a click on Generate Preview starts
StClickGenerate(form, gen, now) ==
  /\ app = "streamlit"
  /\ \E top \in { StTop(widgets) } :
       /\ StTopDone(top)
       /\ StGenerate(top, st_build_payment_dict(form, gen), now)
  /\ UNCHANGED << app, guiVars >>

\* a manual validation that picks the validator by the format radio
StValidatorByRadio(ss, w) == IF w.fmt = FormatOptions[1] THEN "pain001" ELSE "mt103"

\* the validator the manual validation picks: by the format of the last
\* generation, not by the format radio
StValidatorFor(ss, w) == IF ss.last_format = XML THEN "pain001" ELSE "mt103"

\* what a manual validation by the pain.001 validator leaves; r: what the
\* validator gives
StValidateXml(ss, content, r) ==
  IF r.raised # "none"
  THEN /\ session_state' = ss
       /\ ev' = [ Quiet("st_validate") EXCEPT
                    !.validators = << [ v |-> "pain001", on |-> shown.by ] >>,
                    !.error = r.raised ]
       /\ UNCHANGED shown
  ELSE /\ session_state' = [ ss EXCEPT !.validation_result =
                                [ valid |-> r.valid, errors |-> r.errors ] ]
       /\ shown' = [ shown EXCEPT !.validated = content ]
       /\ ev' = [ Quiet("st_validate") EXCEPT
                    !.validators = << [ v |-> "pain001", on |-> shown.by ] >>,
                    !.stored = << [ valid |-> r.valid, errors |-> r.errors ] >> ]

\* what a manual validation by the MT103 validator leaves
StValidateMt(ss, content, r) ==
  /\ session_state' = [ ss EXCEPT !.validation_result = r ]
  /\ shown' = [ shown EXCEPT !.validated = content ]
  /\ ev' = [ Quiet("st_validate") EXCEPT
               !.validators = << [ v |-> "mt103", on |-> shown.by ] >>,
               !.stored = << r >> ]

\* the Validate block, after the top of the script
StValidate(top, content) ==
  IF content = << >>
  THEN /\ session_state' = top.ss
       /\ ev' = [ Quiet("st_validate") EXCEPT !.error = "No preview content" ]
       /\ UNCHANGED shown
  ELSE IF StValidatorFor(top.ss, widgets) = "pain001"
  THEN IF \/ top.ss.schema_path = None
          \/ top.ss.schema_path = << >>
          \/ StFileAt(top) = "missing"
       THEN /\ session_state' = top.ss
            /\ ev' = [ Quiet("st_validate") EXCEPT !.error = "No persisted schema" ]
            /\ UNCHANGED shown
       ELSE StValidateXml(top.ss, content,
                          Pain001Result[<< content, top.ss.schema_path, StFileAt(top) >>])
  ELSE StValidateMt(top.ss, content, Mt103Result[content])

\* the run a click on Validate Current Preview starts
StClickValidate ==
  /\ app = "streamlit"
  /\ \E top \in { StTop(widgets) } :
       /\ StTopDone(top)
       /\ StValidate(top, top.ss.preview_content)
  /\ UNCHANGED << app, guiVars >>

\* the run a click on Download Message starts: it renders the download button
StClickDownload ==
  /\ app = "streamlit"
  /\ \E top \in { StTop(widgets) } :
       /\ files' = top.files
       /\ config' = top.config
       /\ session_state' = top.ss
       /\ widgets' = Rendered(widgets, top, "absent",
                              IF top.ss.preview_content = << >> THEN "absent"
                              ELSE "shown")
       /\ ev' = IF top.ss.preview_content = << >>
                THEN [ Quiet("st_download") EXCEPT !.error = "Nothing to download" ]
                ELSE [ Quiet("st_download") EXCEPT
                         !.sawValid = top.ss.validation_result.valid ]
  /\ UNCHANGED << app, guiVars, shown >>

\* a click on the download button the page shows: the browser saves the
\* message, and the script runs again
StFetchDownload ==
  /\ app = "streamlit"
  /\ widgets.download = "shown"
  /\ \E top \in { StTop(widgets) } :
       /\ StTopDone(top)
       /\ session_state' = top.ss
  /\ ev' = [ Quiet("st_fetch_download") EXCEPT
               !.sawValid = session_state.validation_result.valid,
               !.transports = << "download" >> ]
  /\ UNCHANGED << app, guiVars, shown >>

\* what the override check box reads in a run that renders it
StOverrideChecked(w) == w.override = "checked"

\* the Send block, after the top of the script; checked: what the override
\* check box reads
StSend(top, content, valid, checked) ==
  /\ widgets' = Rendered(widgets, top,
                         IF content # << >> /\ ~valid
                         THEN (IF checked THEN "checked" ELSE "unchecked")
                         ELSE "absent",
                         "absent")
  /\ ev' = IF content = << >>
           THEN [ Quiet("st_send") EXCEPT !.error = "Nothing to send" ]
           ELSE IF ~valid /\ ~checked
           THEN \* st.stop()
                [ Quiet("st_send") EXCEPT !.sawValid = valid ]
           ELSE [ Quiet("st_send") EXCEPT !.sawValid = valid,
                                          !.confirmed = ~valid /\ checked,
                                          !.transports = << "mock log" >> ]

\* the run a click on Send (mock) starts; the select box of send methods is
\* new in this run and reads its first entry, Log locally
StClickSend ==
  /\ app = "streamlit"
  /\ \E top \in { StTop(widgets) } :
       /\ files' = top.files
       /\ config' = top.config
       /\ session_state' = top.ss
       /\ StSend(top, top.ss.preview_content, top.ss.validation_result.valid,
                 StOverrideChecked(widgets))
  /\ UNCHANGED << app, guiVars, shown >>

(***************************************************************************)
(* The environment: a schema file is removed, made unreadable or replaced  *)
(***************************************************************************)
EnvFile(path, state) ==
  /\ files[path] # state
  /\ files' = [ files EXCEPT ![path] = state ]
  /\ ev' = Quiet("env_file")
  /\ UNCHANGED << app, guiVars, stVars, shown >>

(***************************************************************************)
(* The specification                                                       *)
(***************************************************************************)
Init ==
  /\ app \in { "gui", "streamlit" }
  /\ files \in [ Paths -> FileStates ]
  /\ GuiInit
  /\ StInit
  /\ shown = [ by |-> "none", validated |-> None ]
  /\ ev = Quiet("init")

Next ==
  \/ \E f \in { 0, 1 } : GuiSelectFormat(f)
  \/ \E fname \in DOMAIN files \cup { << >> } : GuiSelectSchema(fname)
  \/ \E form \in Forms, gen \in GeneratedRefs, now \in Timestamps :
       GuiGenerate(form, gen, now)
  \/ GuiValidateClicked
  \/ \E fname \in { << >>, << "out.txt" >> } : GuiSave(fname)
  \/ \E yes, ok \in BOOLEAN, choice \in Range(SendOptions),
        fname \in { << >>, << "out.txt" >> } : GuiSend(yes, ok, choice, fname)
  \/ \E name \in DOMAIN files \cup { None }, kind \in SchemaKinds \cup { "none" } :
       StUploadXsd(name, kind)
  \/ \E sel \in DOMAIN files \cup { None } : StSelectSchema(sel)
  \/ \E logo \in { None, LogoPath } : StUploadLogo(logo)
  \/ \E f \in Range(FormatOptions) : StSelectFormat(f)
  \/ StToggleOverride
  \/ \E form \in Forms, gen \in GeneratedRefs, now \in Timestamps :
       StClickGenerate(form, gen, now)
  \/ StClickValidate
  \/ StClickDownload
  \/ StFetchDownload
  \/ StClickSend
  \/ \E path \in DOMAIN files, state \in FileStates : EnvFile(path, state)

Spec == Init /\ [][Next]_vars

(***************************************************************************)
(* The generators and the validators called on their own, as a caller of   *)
(* the library calls them: the text is in preview, the result that came    *)
(* back last in last_validation_result.                                    *)
(***************************************************************************)
\* how many of the first places of a text a token may be taken out of
MaxDamage == 3

\* text without the token at place k
Damage(text, k) == SubSeq(text, 1, k - 1) \o SubSeq(text, k + 1, Len(text))

CodecGenerateMt103(form, gen) ==
  /\ app = "codec"
  /\ \E built \in { gui_collect_payment(form, gen) } :
       /\ built.ok
       /\ preview' = Mt103Of[built.p]
  /\ shown' = [ by |-> "mt103", validated |-> None ]
  /\ ev' = [ Quiet("codec_generate_mt103") EXCEPT
               !.built = "ok", !.generators = << "mt103" >> ]
  /\ UNCHANGED << app, files, schema_path, last_validation_result,
                  format_checked, validation_status_label, stVars >>

CodecGeneratePain001(form, gen, now) ==
  /\ app = "codec"
  /\ \E built \in { gui_collect_payment(form, gen) } :
       /\ built.ok
       /\ preview' = Pain001Of[<< built.p, now >>]
  /\ shown' = [ by |-> "pain001", validated |-> None ]
  /\ ev' = [ Quiet("codec_generate_pain001") EXCEPT
               !.built = "ok", !.generators = << "pain001" >> ]
  /\ UNCHANGED << app, files, schema_path, last_validation_result,
                  format_checked, validation_status_label, stVars >>

\* the text is damaged on its way to the validator
CodecDamage(k) ==
  /\ app = "codec"
  /\ shown.by \in { "mt103", "pain001" }
  /\ k <= Len(preview)
  /\ preview' = Damage(preview, k)
  /\ shown' = [ by |-> "damaged", validated |-> None ]
  /\ ev' = Quiet("codec_damage")
  /\ UNCHANGED << app, files, schema_path, last_validation_result,
                  format_checked, validation_status_label, stVars >>

\* how many of the first lines of a text one may be taken out of
MaxDropLine == 10

\* lines without the line at place k
DropLine(lines, k) == SubSeq(lines, 1, k - 1) \o SubSeq(lines, k + 1, Len(lines))

\* a line of the text is lost on its way to the validator
CodecDropLine(k) ==
  /\ app = "codec"
  /\ shown.by = "mt103"
  /\ \E lines \in { SplitLines(preview) } :
       /\ k <= Len(lines)
       /\ Len(lines) > 1
       /\ preview' = JoinLines(DropLine(lines, k))
  /\ shown' = [ by |-> "damaged", validated |-> None ]
  /\ ev' = Quiet("codec_drop_line")
  /\ UNCHANGED << app, files, schema_path, last_validation_result,
                  format_checked, validation_status_label, stVars >>

CodecValidateMt103 ==
  /\ app = "codec"
  /\ \E r \in { validate_mt103_text(preview) } :
       /\ SetValidationResult(r.valid, r.errors)
       /\ ev' = [ Quiet("codec_validate_mt103") EXCEPT
                    !.validators = << [ v |-> "mt103", on |-> shown.by ] >>,
                    !.returned = [ result |-> r ] ]
  /\ shown' = [ shown EXCEPT !.validated = preview ]
  /\ UNCHANGED << app, files, schema_path, preview, format_checked, stVars >>

\* xsd_path: the schema reference of the call (None: none is given); file: what
\* is at it
CodecValidatePain001(xsd_path, file) ==
  /\ app = "codec"
  /\ xsd_path = None => file = "missing"
  /\ \E r \in { validate_pain001_generated(preview, xsd_path, file) } :
       /\ IF r.raised # "none"
          THEN UNCHANGED << last_validation_result, validation_status_label, shown >>
          ELSE /\ SetValidationResult(r.valid, r.errors)
               /\ shown' = [ shown EXCEPT !.validated = preview ]
       /\ ev' = [ Quiet("codec_validate_pain001") EXCEPT
                    !.validators = << [ v |-> "pain001", on |-> shown.by ] >>,
                    !.error = r.raised,
                    !.returned = [ result |-> r, xsd_path |-> xsd_path, file |-> file ] ]
  /\ UNCHANGED << app, files, schema_path, preview, format_checked, stVars >>

InitCodec ==
  /\ app = "codec"
  /\ files = [ path \in Paths |-> "missing" ]
  /\ GuiInit
  /\ StInit
  /\ shown = [ by |-> "none", validated |-> None ]
  /\ ev = Quiet("init")

NextCodec ==
  \/ \E form \in Forms, gen \in GeneratedRefs : CodecGenerateMt103(form, gen)
  \/ \E form \in Forms, gen \in GeneratedRefs, now \in Timestamps :
       CodecGeneratePain001(form, gen, now)
  \/ \E k \in 1..MaxDamage : CodecDamage(k)
  \/ \E k \in 1..MaxDropLine : CodecDropLine(k)
  \/ CodecValidateMt103
  \/ \E xsd_path \in Paths \cup { None }, file \in FileStates :
       CodecValidatePain001(xsd_path, file)

SpecCodec == InitCodec /\ [][NextCodec]_vars

(***************************************************************************)
(* Properties of the presentation layers (specification Spec)              *)
(***************************************************************************)
GenerateActs == { "gui_generate", "st_generate" }

\* C1: in both UIs a Send action that hands the previewed message to a send
\* method while the stored validation result has valid = false was given the
\* override in that same action (Yes to the question of the GUI, the checked
\* box in the Streamlit run); without it no send method runs.
C1_SendNeedsOverride ==
  (ev.act \in { "gui_send", "st_send" } /\ ev.transports # << >>
     /\ ~StoredResult.valid)
    => ev.confirmed

\* an invalid message goes out after the user answered Yes
C1_OverriddenSend ==
  /\ ev.act = "gui_send"
  /\ ev.transports # << >>
  /\ ~last_validation_result.valid
  /\ ev.confirmed
  /\ preview # << >>

\* C3: whenever the stored validation result has valid = true, it is the
\* outcome of validating exactly the text the preview shows now: no valid
\* result is left over from an earlier preview, also when the validator call
\* of a Generate action raises an error.
C3_ValidResultIsOfCurrentPreview ==
  StoredResult.valid => shown.validated = CurrentPreview

\* C4: when a pain.001 message is generated while no schema is selected, the
\* UI stores a validation result with valid = false and exactly one issue, so
\* that the gate of Send takes the message for invalid.
C4_NoSchemaStoresInvalid ==
  (ev.act \in GenerateActs /\ ev.generators = << "pain001" >> /\ SchemaRef = None)
    => /\ ev.stored = << StoredResult >>
       /\ ~StoredResult.valid
       /\ Len(StoredResult.errors) = 1
       /\ ev.validators = << >>

\* XML was generated in the GUI with no schema selected
C4_GeneratedWithoutSchema ==
  /\ ev.act = "gui_generate"
  /\ ev.generators = << "pain001" >>
  /\ schema_path = None
  /\ preview # << >>
  /\ ~last_validation_result.valid

\* a validation of XML was asked for: by a Generate action that made XML, or by
\* a manual validation of a preview that is XML
XmlValidationRequested ==
  \/ ev.act \in GenerateActs /\ ev.generators = << "pain001" >>
  \/ ev.act = "st_validate" /\ CurrentPreview # << >>
       /\ session_state.last_format = XML

\* C5: when XML validation is requested with a schema reference that is set
\* but whose file does not exist or cannot be read, the outcome is the schema
\* error, shown to the user, and no validation result is recorded.
C5_MissingSchemaIsSchemaError ==
  (XmlValidationRequested /\ SchemaRef # None /\ FileAt(SchemaRef) \notin SchemaKinds)
    => /\ ev.error = "SchemaNotFoundError"
       /\ ev.stored = << >>

\* C7: in the GUI a click on Validate Now with a preview that is not empty
\* runs the validator of the selected format on the preview (for XML: when a
\* schema is set) and puts its outcome in place of the stored result.
C7_ValidateNowValidates ==
  (ev.act = "gui_validate" /\ preview # << >>
     /\ (format_checked = 0 \/ schema_path # None))
    => /\ Len(ev.validators) = 1
       /\ ev.validators[1].v = (IF format_checked = 0 THEN "mt103" ELSE "pain001")
       /\ ev.error = "none" => /\ ev.stored = << last_validation_result >>
                               /\ shown.validated = preview

\* C8: when building the Payment fails in a Generate action (an amount that
\* does not parse, an input error of the Payment Model), no generator and no
\* validator is invoked, and the preview, the stored format and the stored
\* validation result are what they were before the action.
C8_FailedBuildChangesNothing ==
  [][ (ev'.act \in GenerateActs /\ ev'.built = "failed")
        => /\ ev'.generators = << >>
           /\ ev'.validators = << >>
           /\ ev'.stored = << >>
           /\ preview' = preview
           /\ format_checked' = format_checked
           /\ last_validation_result' = last_validation_result
           /\ validation_status_label' = validation_status_label
           /\ session_state'.preview_content = session_state.preview_content
           /\ session_state'.last_format = session_state.last_format
           /\ session_state'.validation_result = session_state.validation_result ]_vars

\* the Payment Model refused the input while a message was in the preview
C8_FailedBuildOverPreview ==
  /\ ev.act \in GenerateActs
  /\ ev.built = "failed"
  /\ ev.error = "InputError"
  /\ CurrentPreview # << >>
  /\ StoredResult.valid

\* C9: Save Message of the GUI and Download Message of the Streamlit app
\* deliver the previewed message while the stored validation result is invalid
\* only after the user confirmed an override.
C9_LocalSaveNeedsOverride ==
  (ev.act \in { "gui_save", "st_fetch_download" } /\ ev.transports # << >>
     /\ ~StoredResult.valid)
    => ev.confirmed

\* every validator call was made on text of the generator of its own format
ValidatorsMatch ==
  \A i \in DOMAIN ev.validators : ev.validators[i].v = ev.validators[i].on

\* C10, as stated: each Generate action invokes exactly one generator, and
\* every validator call of the UIs applies the validator that matches the
\* generator of the current preview, also after the format selection changed.
C10_EveryGenerateOneGenerator ==
  /\ ev.act \in GenerateActs => Len(ev.generators) = 1
  /\ ValidatorsMatch

\* C10, amended: each Generate action that builds its Payment invokes exactly
\* one generator, one whose build fails invokes none, and every validator call
\* of the UIs applies the validator that matches the generator of the current
\* preview, also after the format selection changed.
C10_OneGeneratorMatchingValidator ==
  /\ ev.act \in GenerateActs
       => Len(ev.generators) = (IF ev.built = "ok" THEN 1 ELSE 0)
  /\ ValidatorsMatch

\* a manual validation after the format radio was moved away from the format
\* of the preview
C10_ValidatedAfterFormatChange ==
  /\ ev.act = "st_validate"
  /\ Len(ev.validators) = 1
  /\ ev.validators[1].v # StValidatorByRadio(session_state, widgets)

(***************************************************************************)
(* Properties of the generators and validators (specification SpecCodec)   *)
(***************************************************************************)
\* the places of the mandatory tags in MtTags
MandatoryTags == SelectSeq([ i \in DOMAIN MtTags |-> i ], LAMBDA i : MtTags[i].mandatory)

\* C2: for every valid Payment, free text with line breaks or with text that
\* looks like a tag included, the output of the MT103 generator has each
\* mandatory tag exactly once, in the fixed order, and the MT103 validator
\* run on it returns valid = true with no issue.
C2_GeneratedMt103Validates ==
  (ev.act = "codec_validate_mt103" /\ shown.by = "mt103")
    => /\ ev.returned.result.valid
       /\ ev.returned.result.errors = << >>
       /\ SelectSeq(TagSeq(SplitLines(preview)), LAMBDA i : MtTags[i].mandatory)
            = MandatoryTags

\* C6: for XML text that cannot be parsed the pain.001 validator returns
\* valid = false with exactly one issue, runs no schema stage and raises no
\* exception, whatever the schema reference: present, absent, or naming a
\* file that is missing.
C6_UnparseableIsOneIssue ==
  (ev.act = "codec_validate_pain001" /\ ~XmlWellFormed(preview))
    => /\ ev.returned.result.raised = "none"
       /\ ev.error = "none"
       /\ ~ev.returned.result.valid
       /\ Len(ev.returned.result.errors) = 1
       /\ ev.returned.result.stages = << "parse" >>

\* text that cannot be parsed was validated with a reference to a missing file
C6_UnparseableWithMissingSchema ==
  /\ ev.act = "codec_validate_pain001"
  /\ ~XmlWellFormed(preview)
  /\ ev.returned.xsd_path = PathA
  /\ ev.returned.file = "missing"
  /\ ~last_validation_result.valid

\* C11: every validation result a Generate or Validate action stores has
\* valid = true if and only if its issue list is empty, and it is the result
\* the UI then holds.
C11_StoredValidIffNoIssue ==
  (ev.act \in GenerateActs \cup { "gui_validate", "st_validate" })
    => \A i \in DOMAIN ev.stored :
         /\ ev.stored[i].valid <=> (ev.stored[i].errors = << >>)
         /\ ev.stored[i] = StoredResult

\* the Streamlit Generate block stored the failure of a validator call that
\* raised
C11_StoredAfterSchemaError ==
  /\ ev.act = "st_generate"
  /\ ev.error = "SchemaNotFoundError"
  /\ Len(ev.stored) = 1
  /\ ~StoredResult.valid
  /\ StoredResult.errors # << >>

\* an issue that names a tag as absent
Absent(i) == << "missing mandatory tag", MtTags[i].name >>

\* tags: the tags of the validated text; r: the result the validator returned
MissingTagsNamed(tags, r) ==
  /\ \A i \in DOMAIN MtTags :
       (MtTags[i].mandatory /\ Count(tags, i) = 0)
         => ~r.valid /\ Absent(i) \in Range(r.errors)
  /\ \A i \in DOMAIN MtTags :
       (~MtTags[i].mandatory /\ Count(tags, i) = 0)
         => \A e \in Range(r.errors) : e[Len(e)] # MtTags[i].name

\* C12: for any MT103 text and each mandatory tag that does not occur in it,
\* the MT103 validator returns valid = false with an issue naming that tag as
\* absent; the absence of the optional tag :70: produces no issue.
C12_MissingTagsAreNamed ==
  ev.act = "codec_validate_mt103"
    => MissingTagsNamed(TagSeq(SplitLines(preview)), ev.returned.result)

\* a text that lost its :32A: line was validated
C12_ValidatedWithout32A ==
  /\ ev.act = "codec_validate_mt103"
  /\ shown.by = "damaged"
  /\ Absent(3) \in Range(ev.returned.result.errors)
  /\ ~last_validation_result.valid

(***************************************************************************)
(* The wrapping rule of the MT103 generator applied to remittance texts    *)
(* around the line budget (specification SpecWrap)                         *)
(***************************************************************************)
\* the characters the line budget of a wrapped field holds
FieldBudget == MaxFieldLines * LineWidth

\* a text of n characters with spaces at the places sp
TextWith(n, sp) == [ i \in 1..n |-> IF i \in sp THEN SP ELSE "x" ]

\* the places of the spaces that cut a text into words of 20 characters
Every21st == { i \in 1..(FieldBudget - LineWidth) : i % 21 = 0 }

\* the remittance texts drawn: one character below the budget, at it and one
\* above it; unbroken, with one space inside, or in words of 20 characters
WrapTexts ==
  { TextWith(n, sp) :
      n \in (FieldBudget - 1)..(FieldBudget + 1),
      sp \in { {} } \cup { { k } : k \in 2..(FieldBudget - 2) } \cup { Every21st } }

\* the generator wraps the remittance information of a Payment
CodecWrapRemittance ==
  /\ app = "wrap"
  /\ ev.act = "init"
  /\ ev' = [ Quiet("codec_wrap") EXCEPT !.returned = WrapField(preview) ]
  /\ UNCHANGED << app, files, guiVars, stVars, shown >>

InitWrap ==
  /\ app = "wrap"
  /\ files = [ path \in Paths |-> "missing" ]
  /\ schema_path = None
  /\ last_validation_result = NoResult
  /\ preview \in WrapTexts
  /\ format_checked = 0
  /\ validation_status_label = "Validation status: Not validated"
  /\ StInit
  /\ shown = [ by |-> "none", validated |-> None ]
  /\ ev = Quiet("init")

NextWrap == CodecWrapRemittance

SpecWrap == InitWrap /\ [][NextWrap]_vars

\* wrapped into exactly the lines of the budget, nothing cut off
FillsBudget(w) == Len(w.lines) = MaxFieldLines /\ ~w.overflow

\* C13, as stated: every remittance text of exactly 140 characters wraps into
\* exactly 4 lines with no overflow condition, and every remittance text of
\* 141 characters triggers the overflow policy.
C13_EveryTextAtBudget ==
  ev.act = "codec_wrap"
    => /\ Len(preview) = FieldBudget => FillsBudget(ev.returned)
       /\ Len(preview) = FieldBudget + 1 => ev.returned.overflow

\* C13, amended: every remittance text of exactly 140 characters that has no
\* white space in it wraps into exactly 4 lines of 35 characters with no
\* overflow condition, and every such text of 141 characters triggers the
\* overflow policy: its first 140 characters are kept in 4 lines, the
\* remainder is cut off and flagged.
C13_UnbrokenTextAtBudget ==
  (ev.act = "codec_wrap" /\ \A i \in DOMAIN preview : ~IsWs(preview[i]))
    => /\ Len(preview) = FieldBudget
            => /\ FillsBudget(ev.returned)
               /\ Flatten(ev.returned.lines) = preview
       /\ Len(preview) = FieldBudget + 1
            => /\ ev.returned.overflow
               /\ Len(ev.returned.lines) = MaxFieldLines
               /\ Flatten(ev.returned.lines) = SubSeq(preview, 1, FieldBudget)
       /\ \A k \in DOMAIN ev.returned.lines : Len(ev.returned.lines[k]) <= LineWidth

\* an unbroken text of 140 characters was wrapped into 4 lines
C13_WrappedExactlyAtBudget ==
  /\ ev.act = "codec_wrap"
  /\ Len(preview) = FieldBudget
  /\ \A i \in DOMAIN preview : ~IsWs(preview[i])
  /\ FillsBudget(ev.returned)

(***************************************************************************)
(* The pain.001 generator applied to Payments whose amounts have up to     *)
(* MaxFractionDigits fractional digits (specification SpecAmount)          *)
(***************************************************************************)
MaxFractionDigits == 3

\* the digits an amount is written with
AmountDigits == { "0", "1", "5", "9" }

\* the digit sequences of length n
RECURSIVE DigitRuns(_)
DigitRuns(n) ==
  IF n = 0 THEN { << >> }
  ELSE { Append(ds, d) : ds \in DigitRuns(n - 1), d \in AmountDigits }

\* the amounts typed: units, and up to MaxFractionDigits fractional digits
AmountTexts ==
  { XmlAmountAsTyped([ ip |-> ip, fp |-> fp ]) :
      ip \in { << "0" >>, << "7" >>, << "1", "2", "3", "4" >> },
      fp \in UNION { DigitRuns(n) : n \in 0..MaxFractionDigits } }

\* the text of the element named n: what is between its start tag, or what
\* ends its start tag, and its end tag
ElementText(doc, n) ==
  LET to   == CHOOSE j \in DOMAIN doc : doc[j] = Close(n)
      from == SetMax({ i \in 1..(to - 1) : doc[i] \in MarkupTokens })
  IN  SubSeq(doc, from + 1, to - 1)

\* the digits after the point without the zeros at their end
RECURSIVE SignificantFraction(_)
SignificantFraction(fp) ==
  IF fp # << >> /\ fp[Len(fp)] = "0"
  THEN SignificantFraction(SubSeq(fp, 1, Len(fp) - 1)) ELSE fp

\* two decimals are the same number
SameNumber(a, b) ==
  /\ a.ok /\ b.ok /\ a.neg = b.neg /\ a.ip = b.ip
  /\ SignificantFraction(a.fp) = SignificantFraction(b.fp)

\* digits, a decimal point, exactly two digits
TwoFractionDigits(s) ==
  /\ Len(s) >= 4
  /\ s[Len(s) - 2] = "."
  /\ \A i \in DOMAIN s : i # Len(s) - 2 => s[i] \in Digit

\* the Payment of the worked example with the typed amount is built and the
\* pain.001 generator is applied to it
CodecRenderAmount(gen, now) ==
  /\ app = "amount"
  /\ ev.act = "init"
  /\ \E built \in { gui_collect_payment([ FormExample EXCEPT !.amount = preview ], gen) } :
       /\ built.ok
       /\ preview' = generate_pain001(built.p, now)
       /\ ev' = [ Quiet("codec_render_amount") EXCEPT
                    !.built = "ok", !.generators = << "pain001" >>,
                    !.returned = built.p.amount ]
  /\ UNCHANGED << app, files, schema_path, last_validation_result,
                  format_checked, validation_status_label, stVars, shown >>

InitAmount ==
  /\ app = "amount"
  /\ files = [ path \in Paths |-> "missing" ]
  /\ schema_path = None
  /\ last_validation_result = NoResult
  /\ preview \in AmountTexts
  /\ format_checked = 0
  /\ validation_status_label = "Validation status: Not validated"
  /\ StInit
  /\ shown = [ by |-> "none", validated |-> None ]
  /\ ev = Quiet("init")

NextAmount == \E gen \in GeneratedRefs, now \in Timestamps : CodecRenderAmount(gen, now)

SpecAmount == InitAmount /\ [][NextAmount]_vars

\* the control sum and the instructed amount are the same text, written with
\* exactly two fractional digits
RenderedAlike(ctrl, instd) == ctrl = instd /\ TwoFractionDigits(ctrl)

PathB == << "assets/schemas/b.xsd" >>
StorePaths == { PathA, PathB }

InitStore ==
  /\ app \in { "gui", "streamlit" }
  /\ files \in [ StorePaths -> FileStates ]
  /\ GuiInit
  /\ StInit
  /\ shown = [ by |-> "none", validated |-> None ]
  /\ ev = Quiet("init")

NextStore ==
  \/ \E f \in { 0, 1 } : GuiSelectFormat(f)
  \/ \E fname \in DOMAIN files \cup { << >> } : GuiSelectSchema(fname)
  \/ GuiValidateClicked
  \/ \E fname \in { << >>, << "out.txt" >> } : GuiSave(fname)
  \/ \E yes, ok \in BOOLEAN, choice \in Range(SendOptions),
        fname \in { << >>, << "out.txt" >> } : GuiSend(yes, ok, choice, fname)
  \/ \E name \in DOMAIN files \cup { None }, kind \in SchemaKinds \cup { "none" } :
       StUploadXsd(name, kind)
  \/ \E sel \in DOMAIN files \cup { None } : StSelectSchema(sel)
  \/ \E logo \in { None, LogoPath } : StUploadLogo(logo)
  \/ \E f \in Range(FormatOptions) : StSelectFormat(f)
  \/ StClickValidate
  \/ StClickDownload
  \/ StClickSend
  \/ \E path \in DOMAIN files, state \in FileStates : EnvFile(path, state)

SpecStore == InitStore /\ [][NextStore]_vars

(***************************************************************************)
(* Two sessions of the Streamlit app over one config file and one assets   *)
(* directory (specification SpecSessions).  session_state and widgets are  *)
(* those of the session whose script runs next; shown holds the session    *)
(* state and the widgets of the other session.                             *)
(***************************************************************************)
\* the user of the other browser session acts next
StOtherSession ==
  /\ app = "streamlit"
  /\ session_state' = shown.ss
  /\ widgets' = shown.w
  /\ shown' = [ ss |-> session_state, w |-> widgets ]
  /\ ev' = Quiet("st_other_session")
  /\ UNCHANGED << app, files, config, guiVars >>

\* both sessions have loaded the config
InitSessions ==
  /\ app = "streamlit"
  /\ files \in [ Paths -> FileStates ]
  /\ GuiInit
  /\ StInit
  /\ shown = [ ss |-> session_state, w |-> widgets ]
  /\ ev = Quiet("init")

NextSessions ==
  \/ \E name \in DOMAIN files \cup { None }, kind \in SchemaKinds \cup { "none" } :
       StUploadXsd(name, kind)
  \/ \E sel \in DOMAIN files \cup { None } : StSelectSchema(sel)
  \/ \E logo \in { None, LogoPath } : StUploadLogo(logo)
  \/ StOtherSession

SpecSessions == InitSessions /\ [][NextSessions]_vars

(***************************************************************************)
(* Further properties of the presentation layers (specification Spec)      *)
(***************************************************************************)

\* a manual validation of a preview that is XML was asked for
ManualXmlValidation ==
  /\ CurrentPreview # << >>
  /\ \/ ev.act = "st_validate" /\ session_state.last_format = XML
     \/ ev.act = "gui_validate" /\ format_checked = 1

\* C15: after a manual validation of an XML preview with no usable schema (no
\* schema reference, or one whose file is missing or cannot be read) the stored
\* result is valid = false with an issue that explains it, so a valid = true
\* stored before does not remain.
C15_NoUsableSchemaStoresInvalid ==
  (ManualXmlValidation /\ (SchemaRef = None \/ FileAt(SchemaRef) \notin SchemaKinds))
    => /\ ~StoredResult.valid
       /\ StoredResult.errors # << >>

(***************************************************************************)
(* The payment builders of the two UIs applied to forms with several       *)
(* invalid fields at once (specification SpecBuild)                        *)
(***************************************************************************)
\* values typed into a field: the one of the worked example, and invalid ones
TypedAccount(v) == { v, << >>, << SP >> }
TypedAmount == { FormExample.amount, << "a", "b", "c" >>, << "-", "5" >> }
TypedCurrency == { FormExample.currency, << "E", "U", "R", "O" >> }
TypedDate == { FormExample.value_date, << "2","0","2","4","-","1","3","-","0","1" >> }
TypedBic == { << >>, << "D", "E", "U", "T" >> }

\* the forms drawn: every combination of these values
BuildForms ==
  { [ FormExample EXCEPT !.ordering_account = oa, !.beneficiary_name = bn,
                         !.amount = am, !.currency = cu, !.value_date = vd,
                         !.beneficiary_bic = bic ] :
      oa \in TypedAccount(FormExample.ordering_account),
      bn \in TypedAccount(FormExample.beneficiary_name),
      am \in TypedAmount, cu \in TypedCurrency, vd \in TypedDate, bic \in TypedBic }

\* _collect_payment of the GUI is called on the form
CodecBuildGui(gen) ==
  /\ app = "build"
  /\ ev.act = "init"
  /\ ev' = [ Quiet("codec_build_gui") EXCEPT
               !.returned = [ form |-> ev.returned,
                              built |-> gui_collect_payment(ev.returned, gen) ] ]
  /\ UNCHANGED << app, files, guiVars, stVars, shown >>

\* _build_payment_dict of the Streamlit script is called on the form
CodecBuildSt(gen) ==
  /\ app = "build"
  /\ ev.act = "init"
  /\ ev' = [ Quiet("codec_build_st") EXCEPT
               !.returned = [ form |-> ev.returned,
                              built |-> st_build_payment_dict(ev.returned, gen) ] ]
  /\ UNCHANGED << app, files, guiVars, stVars, shown >>

InitBuild ==
  /\ app = "build"
  /\ files = [ path \in Paths |-> "missing" ]
  /\ GuiInit
  /\ StInit
  /\ shown = [ by |-> "none", validated |-> None ]
  /\ \E form \in BuildForms : ev = [ Quiet("init") EXCEPT !.returned = form ]

NextBuild ==
  \/ \E gen \in GeneratedRefs : CodecBuildGui(gen)
  \/ \E gen \in GeneratedRefs : CodecBuildSt(gen)

SpecBuild == InitBuild /\ [][NextBuild]_vars

\* the steps of the fixed validation order: account fields, amount, currency,
\* value date, BIC
StepOf(field) ==
  CASE field \in { "ordering_account", "ordering_name", "beneficiary_account",
                   "beneficiary_name" } -> 1
    [] field = "amount"          -> 2
    [] field = "currency"        -> 3
    [] field = "value_date"      -> 4
    [] field = "beneficiary_bic" -> 5

\* the fields of a form that are invalid
InvalidFields(form) ==
  { f \in { "ordering_account", "ordering_name", "beneficiary_account",
            "beneficiary_name" } : Strip(form[f]) = << >> }
  \cup (IF ParseDecimal(Strip(form.amount)).ok
           /\ DecimalPositive(ParseDecimal(Strip(form.amount)))
        THEN { } ELSE { "amount" })
  \cup (IF IsCurrencyShape(ToUpper(OrElse(Strip(form.currency), DefaultCurrency)))
        THEN { } ELSE { "currency" })
  \cup (IF Strip(form.value_date) = << >> \/ IsIsoDate(Strip(form.value_date))
        THEN { } ELSE { "value_date" })
  \cup (IF Strip(form.beneficiary_bic) = << >> \/ IsBicShape(Strip(form.beneficiary_bic))
        THEN { } ELSE { "beneficiary_bic" })

\* the failure names an invalid field of the earliest step that has one
NamesFirstOffending(built, bad) ==
  /\ ~built.ok
  /\ built.err = "InputError"
  /\ built.field \in bad
  /\ \A f \in bad : StepOf(built.field) <= StepOf(f)

\* C16: when several fields of a form are invalid at once, building the Payment
\* fails with an InputError that names the first offending field in the fixed
\* validation order (account fields non-empty, amount, currency, value_date,
\* beneficiary_bic), and no Payment is returned.
C16_FirstOffendingFieldNamed ==
  (ev.act \in { "codec_build_gui", "codec_build_st" }
     /\ Cardinality(InvalidFields(ev.returned.form)) >= 2)
    => NamesFirstOffending(ev.returned.built, InvalidFields(ev.returned.form))

\* a click on Send (mock) in Streamlit found the previewed message invalid and
\* stopped at the override check box
StSendAwaitsOverride ==
  /\ ev.act = "st_send"
  /\ ev.error = "none"
  /\ ~ev.sawValid
  /\ ev.transports = << >>

\* C17: the override of the Streamlit Send is usable: when a click on Send with
\* a preview that is not empty and a stored valid = false has put the override
\* check box on the page and the user ticks it, a send method runs.
C17_TickedOverrideSends ==
  [][ (StSendAwaitsOverride /\ ev'.act = "st_toggle_override")
        => ev'.transports # << >> ]_vars

\* the actions that hand the previewed message on, or validate it
PreviewActs ==
  { "gui_save", "gui_send", "gui_validate",
    "st_send", "st_download", "st_fetch_download", "st_validate" }

\* C18: while the preview is empty, Save, Send, Download and the manual Validate
\* of both UIs invoke no transport and no validator and leave the preview, the
\* stored validation result and the schema selection as they were.
C18_EmptyPreviewChangesNothing ==
  [][ (CurrentPreview = << >> /\ ev'.act \in PreviewActs)
        => /\ ev'.transports = << >>
           /\ ev'.validators = << >>
           /\ CurrentPreview' = CurrentPreview
           /\ StoredResult' = StoredResult
           /\ SchemaRef' = SchemaRef ]_vars

\* the actions that select or upload a schema
SchemaActs == { "gui_select_schema", "st_upload_xsd", "st_select_schema" }

\* C19: selecting or uploading a schema changes only the schema path (and, in
\* Streamlit, the persisted config and the file the uploader writes): no generator, no
\* validator and no transport runs, and the preview, the stored validation
\* result and the rest of the UI state are what they were, so a valid = true
\* computed against the previous schema stays in force.
C19_SchemaChangeKeepsResult ==
  [][ ev'.act \in SchemaActs
        => /\ ev'.generators = << >> /\ ev'.validators = << >> /\ ev'.transports = << >>
           /\ CurrentPreview' = CurrentPreview
           /\ StoredResult' = StoredResult
           /\ UNCHANGED << preview, last_validation_result, format_checked,
                           validation_status_label, shown >>
           /\ session_state' = [ session_state EXCEPT
                                   !.schema_path = session_state'.schema_path ] ]_vars

\* an XML preview stored as valid, and the schema then put in its place is the
\* schema of another message
C19_ValidAfterSchemaReplaced ==
  /\ ev.act = "st_upload_xsd"
  /\ shown.by = "pain001"
  /\ StoredResult.valid
  /\ FileAt(SchemaRef) = "other"

\* C20: the persisted settings survive independent updates: once a logo path
\* is saved to the config, a later schema upload or selection, in the same or
\* in another Streamlit session, leaves the persisted logo_path as it is, and a
\* logo upload leaves a persisted schema_path as it is.
C20_SettingsSurviveUpdates ==
  [][ /\ (ev'.act \in { "st_upload_xsd", "st_select_schema" } /\ config.logo_path # None)
           => config'.logo_path = config.logo_path
      /\ (ev'.act = "st_upload_logo" /\ config.schema_path # None)
           => config'.schema_path = config.schema_path ]_vars

=============================================================================
